---- MODULE Spec2Model ----
(***************************************************************************)
(* A model of jolt's load engine (sync and libaio drivers with their token *)
(* bucket and trace emission), of the sustain analyzer, of the evaluator    *)
(* and of the coordinate and annealing optimizers.  Each subsystem has its *)
(* own specification; the variables of the others stay unchanged under it. *)
(***************************************************************************)
EXTENDS Integers, Sequences, FiniteSets, Bags, TLC

\* ---------------------------------------------------------------- bounds
MaxWorkers == 2
MaxQD == 2
MaxTime == 2
MaxIOs == 3
\* The drivers batch 1000 spans per TraceMsg; the model batches fewer.
traceBatchSize == 2

\* Sustain analyzer: the latest timestamp of a span, the spans of one TraceMsg
\* and the TraceMsgs of one run.
MaxSpanTime == 3
MaxSpans == 2
MaxMsgs == 3
\* Rates are 1e9/dur IOPS as float64; the model counts time in units of
\* 1/NanosPerSecond s and keeps rates in units of 1/RateDenominator IOPS.
NanosPerSecond == 3
RateDenominator == 2

\* The spans whose events one flush processes.
MaxLoopSpans == 3

\* Evaluator: Evaluate calls of one optimisation, the values a state variable
\* takes, and the I/O count and the duration in seconds of one engine run.
MaxEvals == 3
MaxStateValue == 1
MaxRunIOs == 2
MaxRunSeconds == 2

\* Optimizers: Evaluate calls of one Optimize run, and of one with the
\* deterministic engine.
MaxOptEvals == 8
MaxCappedEvals == 10

\* Annealing: the temperature levels counted when the levels above min_temp
\* are counted.
MaxTempLevels == 4

\* Histogram: the bucket table is built like the source's but smaller (linear
\* buckets up to linearThreshold, then growth by expFactor up to
\* bucketCeiling); the Record and the Merge calls of one run.
linearThreshold == 2
expFactor == 2
bucketCeiling == 8
MaxRecords == 3
MaxMerges == 2

\* FindKnee: the significand bits of the floating-point arithmetic (float64
\* has 53; both are odd, so 1/3 and 2/3 round the same way), the longest
\* enumerated point list and its largest coordinate, the longest saturation curve.
MantissaBits == 11
MaxPoints == 3
MaxCoord == 3
MaxCurveN == 8

\* Offsets: the largest file size and block size, the I/Os one worker issues.
MaxFileSize == 7
MaxBlockSize == 3
MaxOffsetIOs == 3

\* Queue-depth distribution: the largest Workers and QueueDepth requested.
MaxPartWorkers == 6
MaxPartQD == 8

\* Monitoring loop: the ticks of one run, the largest min_runtime / max_runtime
\* in ticks, the I/Os completed between two ticks, and the ticks the workers
\* take to return after close(done).
MaxMonitorTicks == 8
MaxRuntimeTicks == 7
MaxTickOps == 1
MaxDrainTicks == 1

\* The goroutines of one Run: at most MaxJoinWorkers workers, a queue depth of
\* at most MaxJoinQD, max_runtime of at most MaxJoinRuntime monitor ticks (0 is
\* "no limit"); the ops counter is followed up to MaxOpsSeen.
MaxJoinWorkers == 3
MaxJoinQD == 2
MaxJoinRuntime == 2
MaxOpsSeen == 1

\* The slots of one ring or aio worker: a worker queue depth of at most
\* MaxSlotQD.
MaxSlotQD == 3

\* math.MaxInt64, the "+infinity" MinStart: above every clock reading.
MaxInt64 == MaxTime + MaxSpanTime + 1000

VARIABLES
    \* ---- engine (SyncEngine.Run / LibAIOEngine.Run and their workers)
    params,       \* engine.Params: EngineType, BlockSize, Workers, QueueDepth, Trace
    runPc,        \* position of Run: "start", "monitor", "wait", "returned", "error"
    done,         \* the done channel is closed
    qd,           \* the effective global queue depth computed by Run
    numWorkers,   \* the number of worker goroutines Run starts
    tokens,       \* number of tokens in the tokens channel (sync)
    now,          \* the clock read by time.Now()
    pc,           \* per worker: position in runWorker / runAIOWorker
    ioStart,      \* per sync worker: ioStart of the I/O in progress
    ioEnd,        \* per sync worker: ioEnd of the I/O just finished
    ioRes,        \* per sync worker: outcome of the I/O just finished
    ioCount,      \* per worker: ioCount
    issued,       \* per worker: I/Os issued so far (bounds the run)
    workerErr,    \* per worker: the workerResult carries an error
    traceSpans,   \* per worker: the pending span batch
    workerQD,     \* per libaio worker: its share of the queue depth
    startTimes,   \* per libaio worker: slot -> start time (0: the zero time)
    freeSlots,    \* per libaio worker: the free-slot stack freeSlots[0:nextFreeIdx]
    inFlight,     \* per libaio worker: inFlight
    sent,         \* per worker: every TraceMsg it sent on params.TraceChannel, in order
    \* ---- sustain analyzer (SustainAnalyzer)
    expectedWorkers,  \* expectedWorkers
    workerMinStarts,  \* map worker id -> latest MinStart
    eventPQ,          \* the heap array of events
    currentRate,      \* currentRate, in 1/RateDenominator IOPS
    lastTime,         \* lastTime
    histogram,        \* map IOPS bin -> nanoseconds
    anPc,             \* "running" while Run ranges over traceCh, "done" after flush
    frontier,         \* per worker: the largest MinStart it has sent (its promise)
    msgCount,         \* TraceMsgs received so far (bounds the run)
    allSpans,         \* the bag of spans (of positive duration) received so far
    popLog,           \* every event popped so far, in pop order
    lastPops,         \* the number of events the latest processMsg / flush popped
    reordered,        \* a TraceMsg brought a span that starts before one received earlier
    \* ---- evaluator (optimize.Evaluator)
    cfg,              \* cfg.Objectives
    Cache,            \* map cache key -> aggregated engine.Result
    History,          \* the HistoryEntry list
    initialScore,     \* initialScore, a rational <<num, den>>
    evalCalls,        \* Evaluate calls so far (bounds the run)
    engCalls,         \* eng.Run calls so far
    evalRet,          \* what the latest Evaluate returned: res, score, reason, err
    runs,             \* per evaluated state: number, I/Os and duration of its successful runs
    \* ---- optimizers (CoordinateOptimizer, AnnealingOptimizer)
    optKind,          \* which optimizer runs: "coordinate" or "annealing"
    search,           \* cfg.Search: the list of config.Variable
    settings,         \* cfg.Settings: the annealing settings
    engKind,          \* the engine behind the evaluator: "capped" or "any"
    optPc,            \* position of Optimize
    co,               \* the locals of CoordinateOptimizer.Optimize and of its searches
    ao,               \* the locals of AnnealingOptimizer.Optimize
    ret,              \* the state Optimize returned (Nil with an error)
    passed,           \* every state passed to Evaluate, in call order
    \* ---- the monitoring loop of Run (time in ticks of the 100 ms ticker)
    monParams,        \* engine.Params: MinRuntime, MaxRuntime, ErrorTarget
    monPc,            \* position of Run: "monitor", "finished", "returned"
    elapsed,          \* elapsed at the latest tick
    iopsSamples,      \* iopsSamples
    monReason,        \* reason
    duration,         \* duration := time.Since(start), once the workers have returned
    \* ---- the queue-depth distribution of UringEngine.Run / LibAIOEngine.Run
    partParams,       \* engine.Params: EngineType, Workers, QueueDepth
    partPc,           \* position of Run: "start", "started"
    workerSlots,      \* per started worker: the qd its goroutine was given
    \* ---- stats.Histogram (the log-linear histogram)
    hs,               \* per histogram: TotalCount, MinSeen, MaxSeen, Sum and the array Counts points to
    arrays,           \* the Counts arrays, by array id
    recorded,         \* per histogram: the recordings it holds, its own and the merged ones
    lastMerge,        \* the receiver and the argument of the latest Merge
    histOps,          \* Record and Merge calls so far (bounds the run)
    histPc,           \* "recording", or "read" once the quantiles were taken
    quants,           \* the histogram read and its ValueAtQuantile per quantile
    \* ---- the offsets of one worker (runWorker, runAIOWorker, runUringWorker)
    offParams,        \* Driver, Size of the file, BlockSize, Rand
    offPc,            \* "setup", "loop", "returned" or "error"
    maxBlocks,        \* size / BlockSize, once computed
    lastOffset,       \* the next sequential offset of the ring and aio workers
    offsets,          \* the offsets of the I/Os issued so far, in order
    \* ---- analyze.FindKnee
    points,           \* the caller's slice of points (FindKnee sorts it in place)
    kneePc,           \* "call" or "returned"
    knee,             \* the point FindKnee returned
    \* ---- the goroutines of one Run (SyncEngine.Run, LibAIOEngine.Run)
    joinParams,       \* engine.Params: EngineType, Workers, QueueDepth, MaxRuntime
    joinPc,           \* position of Run: "start", "monitor", "wait", "aggregate", "returned", "error"
    joinElapsed,      \* elapsed at the latest monitor tick, in ticks
    doneClosed,       \* close(done) has run
    joinTokens,       \* tokens buffered in the tokens channel
    goPc,             \* per goroutine: position in runWorker / runAIOWorker and in the go func
    goRes,            \* per goroutine: what its worker returned, "none", "ok" or "err"
    opsCounter,       \* the atomic opsCounter, saturating
    results,          \* the workerResults buffered in the results channel, oldest first
    resultsClosed,    \* close(results) has run
    sends,            \* per goroutine: sends on results so far
    wg,               \* the WaitGroup counter
    merged,           \* the workers whose histogram aggregate has merged
    firstErr,         \* aggregate has met a worker error
    panicked,         \* a goroutine sent on the closed results channel
    \* ---- the slots of one ring or aio worker (runUringWorker, runAIOWorker)
    slotParams,       \* Driver ("uring" or "libaio") and the worker's qd
    slotPc,           \* "top" of the loop, "wait", "reap", "returned" or "error"
    slotFreeSlots,    \* the array freeSlots (entries at and above nextFreeIdx are stale)
    slotNextFreeIdx,  \* nextFreeIdx
    slotInFlight,     \* inFlight
    slotPending,      \* the slots handed to the kernel whose completion was not reaped yet
    slotReused        \* a slot was handed out again while still pending

engineVars == <<params, runPc, done, qd, numWorkers, tokens, now, pc, ioStart,
                ioEnd, ioRes, ioCount, issued, workerErr, traceSpans, workerQD,
                startTimes, freeSlots, inFlight, sent>>

sustainVars == <<expectedWorkers, workerMinStarts, eventPQ, currentRate, lastTime,
                 histogram, anPc, frontier, msgCount, allSpans, popLog, lastPops,
                 reordered>>

evalVars == <<cfg, Cache, History, initialScore, evalCalls, engCalls, runs, evalRet>>

optVars == <<optKind, search, settings, engKind, optPc, co, ao, ret, passed>>

monVars == <<monParams, monPc, elapsed, iopsSamples, monReason, duration>>

partVars == <<partParams, partPc, workerSlots>>

histVars == <<hs, arrays, recorded, lastMerge, histOps, histPc, quants>>

\* The units examined on their own.
offVars == <<offParams, offPc, maxBlocks, lastOffset, offsets>>

kneeVars == <<points, kneePc, knee>>

joinVars == <<joinParams, joinPc, joinElapsed, doneClosed, joinTokens, goPc, goRes,
              opsCounter, results, resultsClosed, sends, wg, merged, firstErr, panicked>>

slotVars == <<slotParams, slotPc, slotFreeSlots, slotNextFreeIdx, slotInFlight,
              slotPending, slotReused>>

unitVars == <<monVars, partVars, histVars, offVars, kneeVars, joinVars, slotVars>>

vars == <<engineVars, sustainVars, evalVars, optVars, unitVars>>

\* ------------------------------------------------------------- helpers
WorkerIds == 0 .. (MaxWorkers - 1)

Min(S) == CHOOSE x \in S : \A y \in S : x <= y

Max(S) == CHOOSE x \in S : \A y \in S : x >= y

RECURSIVE SumOver(_, _)
SumOver(f, S) ==
    IF S = {} THEN 0
    ELSE LET x == CHOOSE y \in S : TRUE IN f[x] + SumOver(f, S \ {x})

Span(s, e) == [Start |-> s, End |-> e]

TraceMsg(id, spans, minStart) == [WorkerID |-> id, Spans |-> spans, MinStart |-> minStart]

\* ------------------------------------------------------- engine: Init
EngineParams ==
    [EngineType : {"sync", "libaio"},
     BlockSize : {0, 1},
     Workers : 1 .. MaxWorkers,
     QueueDepth : 0 .. MaxQD,
     Trace : BOOLEAN]

EngineInit ==
    /\ params \in EngineParams
    /\ runPc = "start"
    /\ done = FALSE
    /\ qd = 0
    /\ numWorkers = 0
    /\ tokens = 0
    /\ now = 1
    /\ pc = [w \in WorkerIds |-> "idle"]
    /\ ioStart = [w \in WorkerIds |-> 0]
    /\ ioEnd = [w \in WorkerIds |-> 0]
    /\ ioRes = [w \in WorkerIds |-> "none"]
    /\ ioCount = [w \in WorkerIds |-> 0]
    /\ issued = [w \in WorkerIds |-> 0]
    /\ workerErr = [w \in WorkerIds |-> FALSE]
    /\ traceSpans = [w \in WorkerIds |-> <<>>]
    /\ workerQD = [w \in WorkerIds |-> 0]
    /\ startTimes = [w \in WorkerIds |-> <<>>]
    /\ freeSlots = [w \in WorkerIds |-> <<>>]
    /\ inFlight = [w \in WorkerIds |-> 0]
    /\ sent = [w \in WorkerIds |-> <<>>]

\* --------------------------------------------------- engine: the clock
Tick ==
    /\ runPc \in {"monitor", "wait"}
    /\ now < MaxTime
    /\ now' = now + 1
    /\ UNCHANGED <<sustainVars, evalVars, optVars, unitVars>>
    /\ UNCHANGED <<params, runPc, done, qd, numWorkers, tokens, pc, ioStart, ioEnd,
                   ioRes, ioCount, issued, workerErr, traceSpans, workerQD,
                   startTimes, freeSlots, inFlight, sent>>

\* ------------------------------------------------- engine: SyncEngine
\* qd := params.QueueDepth; if qd <= 0 { qd = params.Workers }
SyncQueueDepth(p) == IF p.QueueDepth <= 0 THEN p.Workers ELSE p.QueueDepth

InitialTokens_OneExtra(q) == q + 1

\* tokens := make(chan struct{}, qd), filled with qd tokens
InitialTokens(q) == q

SyncRun ==
    /\ runPc = "start"
    /\ params.EngineType = "sync"
    /\ IF params.BlockSize <= 0
       THEN /\ runPc' = "error"
            /\ UNCHANGED <<qd, tokens, numWorkers, pc>>
       ELSE /\ qd' = SyncQueueDepth(params)
            /\ tokens' = InitialTokens(SyncQueueDepth(params))
            /\ numWorkers' = params.Workers
            /\ pc' = [w \in WorkerIds |-> IF w < params.Workers THEN "setup" ELSE "idle"]
            /\ runPc' = "monitor"
    /\ UNCHANGED <<sustainVars, evalVars, optVars, unitVars>>
    /\ UNCHANGED <<params, done, now, ioStart, ioEnd, ioRes, ioCount, issued,
                   workerErr, traceSpans, workerQD, startTimes, freeSlots,
                   inFlight, sent>>

\* The monitor loop decides to stop (Converged or Timeout): close(done).
MonitorFinish ==
    /\ runPc = "monitor"
    /\ done' = TRUE
    /\ runPc' = "wait"
    /\ UNCHANGED <<sustainVars, evalVars, optVars, unitVars>>
    /\ UNCHANGED <<params, qd, numWorkers, tokens, now, pc, ioStart, ioEnd, ioRes,
                   ioCount, issued, workerErr, traceSpans, workerQD, startTimes,
                   freeSlots, inFlight, sent>>

Aggregate_IgnoreErrors(errs) == "returned"

\* aggregate: a workerResult with an error makes Run return nil and that error
Aggregate(errs) == IF \E w \in DOMAIN errs : errs[w] THEN "error" ELSE "returned"

\* wg.Wait() returns once every worker has returned; Run then aggregates the
\* worker results and returns the Result or the error.
RunJoin ==
    /\ runPc = "wait"
    /\ \A w \in WorkerIds : pc[w] \in {"idle", "exit"}
    /\ runPc' = Aggregate(workerErr)
    /\ UNCHANGED <<sustainVars, evalVars, optVars, unitVars>>
    /\ UNCHANGED <<params, done, qd, numWorkers, tokens, now, pc, ioStart, ioEnd,
                   ioRes, ioCount, issued, workerErr, traceSpans, workerQD,
                   startTimes, freeSlots, inFlight, sent>>

\* Open the file, map the buffer, find the size: any of them may fail.
SyncSetup(w) ==
    /\ params.EngineType = "sync"
    /\ pc[w] = "setup"
    /\ \E ok \in BOOLEAN :
         /\ pc' = [pc EXCEPT ![w] = IF ok THEN "select" ELSE "exit"]
         /\ workerErr' = [workerErr EXCEPT ![w] = ~ok]
    /\ UNCHANGED <<sustainVars, evalVars, optVars, unitVars>>
    /\ UNCHANGED <<params, runPc, done, qd, numWorkers, tokens, now, ioStart, ioEnd,
                   ioRes, ioCount, issued, traceSpans, workerQD, startTimes,
                   freeSlots, inFlight, sent>>

\* case <-tokens: the receive is ready when the channel holds a token
TokenReady(t) == t > 0

\* select { case <-tokens: }, then ioStart := time.Now() and the I/O is issued
SyncAcquire(w) ==
    /\ params.EngineType = "sync"
    /\ pc[w] = "select"
    /\ TokenReady(tokens)
    /\ issued[w] < MaxIOs
    /\ tokens' = tokens - 1
    /\ ioStart' = [ioStart EXCEPT ![w] = now]
    /\ issued' = [issued EXCEPT ![w] = @ + 1]
    /\ pc' = [pc EXCEPT ![w] = "io"]
    /\ UNCHANGED <<sustainVars, evalVars, optVars, unitVars>>
    /\ UNCHANGED <<params, runPc, done, qd, numWorkers, now, ioEnd, ioRes, ioCount,
                   workerErr, traceSpans, workerQD, startTimes, freeSlots,
                   inFlight, sent>>

\* select { case <-done: }: flush the pending batch with MinStart = MaxInt64
SyncDone(w) ==
    /\ params.EngineType = "sync"
    /\ pc[w] = "select"
    /\ done
    /\ sent' = IF params.Trace /\ Len(traceSpans[w]) > 0
               THEN [sent EXCEPT ![w] = Append(@, TraceMsg(w, traceSpans[w], MaxInt64))]
               ELSE sent
    /\ traceSpans' = [traceSpans EXCEPT ![w] = <<>>]
    /\ pc' = [pc EXCEPT ![w] = "exit"]
    /\ UNCHANGED <<sustainVars, evalVars, optVars, unitVars>>
    /\ UNCHANGED <<params, runPc, done, qd, numWorkers, tokens, now, ioStart, ioEnd,
                   ioRes, ioCount, issued, workerErr, workerQD, startTimes,
                   freeSlots, inFlight>>

\* f.ReadAt / f.WriteAt returns (n, err); ioEnd := time.Now()
SyncIOComplete(w) ==
    /\ params.EngineType = "sync"
    /\ pc[w] = "io"
    /\ \E res \in {"ok", "zero", "err"} : ioRes' = [ioRes EXCEPT ![w] = res]
    /\ ioEnd' = [ioEnd EXCEPT ![w] = now]
    /\ pc' = [pc EXCEPT ![w] = "release"]
    /\ UNCHANGED <<sustainVars, evalVars, optVars, unitVars>>
    /\ UNCHANGED <<params, runPc, done, qd, numWorkers, tokens, now, ioStart,
                   ioCount, issued, workerErr, traceSpans, workerQD, startTimes,
                   freeSlots, inFlight, sent>>

TokensAfterIO_KeptOnError(t, res) == IF res = "err" THEN t ELSE t + 1

\* tokens <- struct{}{} comes before the error check: whatever the outcome
TokensAfterIO(t, res) == t + 1

\* The frontier a sync worker promises with a full batch: ioEnd.UnixNano()
SyncMinStart(s, e) == e

\* tokens <- struct{}{} (blocks while the channel is full), record the latency,
\* append the span and send a full batch, then the error check and the count.
SyncRelease(w) ==
    /\ params.EngineType = "sync"
    /\ pc[w] = "release"
    /\ tokens < qd
    /\ tokens' = TokensAfterIO(tokens, ioRes[w])
    /\ LET spans == IF params.Trace
                    THEN Append(traceSpans[w], Span(ioStart[w], ioEnd[w]))
                    ELSE traceSpans[w]
           full == params.Trace /\ Len(spans) >= traceBatchSize
       IN /\ traceSpans' = [traceSpans EXCEPT
                               ![w] = IF full \/ ioRes[w] = "err" THEN <<>> ELSE spans]
          /\ sent' = IF full
                     THEN [sent EXCEPT
                             ![w] = Append(@, TraceMsg(w, spans,
                                                       SyncMinStart(ioStart[w], ioEnd[w])))]
                     ELSE sent
    /\ IF ioRes[w] = "err"
       THEN /\ pc' = [pc EXCEPT ![w] = "exit"]
            /\ workerErr' = [workerErr EXCEPT ![w] = TRUE]
            /\ UNCHANGED ioCount
       ELSE /\ pc' = [pc EXCEPT ![w] = "select"]
            /\ ioCount' = [ioCount EXCEPT ![w] = IF ioRes[w] = "ok" THEN @ + 1 ELSE @]
            /\ UNCHANGED workerErr
    \* ioStart, ioEnd, n and err are locals of the iteration that ends here
    /\ ioStart' = [ioStart EXCEPT ![w] = 0]
    /\ ioEnd' = [ioEnd EXCEPT ![w] = 0]
    /\ ioRes' = [ioRes EXCEPT ![w] = "none"]
    /\ UNCHANGED <<sustainVars, evalVars, optVars, unitVars>>
    /\ UNCHANGED <<params, runPc, done, qd, numWorkers, now, issued, workerQD,
                   startTimes, freeSlots, inFlight>>

\* ----------------------------------------------- engine: LibAIOEngine
\* numWorkers := params.Workers; if numWorkers <= 0 { numWorkers = 1 }
\* if params.QueueDepth <= 0 { params.QueueDepth = numWorkers }
AIOQueueDepth(p) ==
    LET n == IF p.Workers <= 0 THEN 1 ELSE p.Workers
    IN IF p.QueueDepth <= 0 THEN n ELSE p.QueueDepth

\* if numWorkers > params.QueueDepth { numWorkers = params.QueueDepth }
AIONumWorkers(p) ==
    LET n == IF p.Workers <= 0 THEN 1 ELSE p.Workers
    IN IF n > AIOQueueDepth(p) THEN AIOQueueDepth(p) ELSE n

WorkerQD_NoRemainder(i, q, n) == q \div n

\* workerQD := qdPerWorker; if i < remainder { workerQD++ }
WorkerQD(i, q, n) == (q \div n) + (IF i < q % n THEN 1 ELSE 0)

AIORun ==
    /\ runPc = "start"
    /\ params.EngineType = "libaio"
    /\ IF params.BlockSize <= 0
       THEN /\ runPc' = "error"
            /\ UNCHANGED <<qd, numWorkers, pc, workerQD>>
       ELSE /\ qd' = AIOQueueDepth(params)
            /\ numWorkers' = AIONumWorkers(params)
            /\ workerQD' = [w \in WorkerIds |->
                              IF w < AIONumWorkers(params)
                              THEN WorkerQD(w, AIOQueueDepth(params), AIONumWorkers(params))
                              ELSE 0]
            /\ pc' = [w \in WorkerIds |->
                        IF w < AIONumWorkers(params) THEN "setup" ELSE "idle"]
            /\ runPc' = "monitor"
    /\ UNCHANGED <<sustainVars, evalVars, optVars, unitVars>>
    /\ UNCHANGED <<params, done, tokens, now, ioStart, ioEnd, ioRes, ioCount, issued,
                   workerErr, traceSpans, startTimes, freeSlots, inFlight, sent>>

\* Open the file, io_setup, map the buffer, find the size (any may fail); then
\* freeSlots = [0, .., qd-1], nextFreeIdx = qd, startTimes all zero, inFlight = 0.
AIOSetup(w) ==
    /\ params.EngineType = "libaio"
    /\ pc[w] = "setup"
    /\ \E ok \in BOOLEAN :
         IF ok
         THEN /\ pc' = [pc EXCEPT ![w] = "fill"]
              /\ freeSlots' = [freeSlots EXCEPT ![w] = [i \in 1 .. workerQD[w] |-> i - 1]]
              /\ startTimes' = [startTimes EXCEPT ![w] = [i \in 1 .. workerQD[w] |-> 0]]
              /\ UNCHANGED workerErr
         ELSE /\ pc' = [pc EXCEPT ![w] = "exit"]
              /\ workerErr' = [workerErr EXCEPT ![w] = TRUE]
              /\ UNCHANGED <<freeSlots, startTimes>>
    /\ UNCHANGED <<sustainVars, evalVars, optVars, unitVars>>
    /\ UNCHANGED <<params, runPc, done, qd, numWorkers, tokens, now, ioStart, ioEnd,
                   ioRes, ioCount, issued, traceSpans, workerQD, inFlight, sent>>

\* for inFlight < qd && nextFreeIdx > 0: the number of slots one pass fills
FillCount(inflight, q, nfree) ==
    IF q - inflight <= 0 THEN 0
    ELSE IF q - inflight < nfree THEN q - inflight ELSE nfree

\* The worker returns with an error: its locals are gone.
AIOFail(w) ==
    /\ pc' = [pc EXCEPT ![w] = "exit"]
    /\ workerErr' = [workerErr EXCEPT ![w] = TRUE]
    /\ traceSpans' = [traceSpans EXCEPT ![w] = <<>>]
    /\ startTimes' = [startTimes EXCEPT ![w] = <<>>]
    /\ freeSlots' = [freeSlots EXCEPT ![w] = <<>>]
    /\ inFlight' = [inFlight EXCEPT ![w] = 0]

\* Fill slots: pop free slots off the stack, stamp startTimes[slot] = time.Now(),
\* inFlight++; then io_submit, which may fail or submit fewer than asked.
AIOFill(w) ==
    /\ params.EngineType = "libaio"
    /\ pc[w] = "fill"
    /\ LET k == FillCount(inFlight[w], workerQD[w], Len(freeSlots[w]))
           n == Len(freeSlots[w])
           popped == {freeSlots[w][i] : i \in (n - k + 1) .. n}
       IN /\ issued[w] + k <= MaxIOs
          /\ \E ok \in BOOLEAN :
               IF ok \/ k = 0
               THEN /\ freeSlots' = [freeSlots EXCEPT ![w] = SubSeq(@, 1, n - k)]
                    /\ startTimes' = [startTimes EXCEPT
                                        ![w] = [i \in DOMAIN @ |->
                                                  IF (i - 1) \in popped THEN now ELSE @[i]]]
                    /\ inFlight' = [inFlight EXCEPT ![w] = @ + k]
                    /\ issued' = [issued EXCEPT ![w] = @ + k]
                    /\ pc' = [pc EXCEPT ![w] = "reap"]
                    /\ UNCHANGED <<workerErr, traceSpans>>
               ELSE /\ AIOFail(w)
                    /\ UNCHANGED issued
    /\ UNCHANGED <<sustainVars, evalVars, optVars, unitVars>>
    /\ UNCHANGED <<params, runPc, done, qd, numWorkers, tokens, now, ioStart, ioEnd,
                   ioRes, ioCount, workerQD, sent>>

\* The sequences of distinct elements of S: the orders in which io_getevents may
\* return the completions of any subset of the requests in flight.
RECURSIVE DistinctSeqs(_)
DistinctSeqs(S) ==
    {<<>>} \cup UNION {{<<x>> \o t : t \in DistinctSeqs(S \ {x})} : x \in S}

\* minStart := MaxInt64; for each slot with a non-zero startTimes[k], the minimum
AIOMinStart(st, t) ==
    LET live == {st[i] : i \in {j \in DOMAIN st : st[j] # 0}}
    IN IF live = {} THEN MaxInt64 ELSE Min(live)

\* io_getevents, then for each event: the span (startTimes[slot], time.Now()),
\* startTimes[slot] = zero, inFlight--, the slot goes back on the stack; at
\* traceBatchSize spans the batch is sent with MinStart over the slots in flight.
AIOReap(w) ==
    /\ params.EngineType = "libaio"
    /\ pc[w] = "reap"
    /\ LET busy == {i - 1 : i \in {j \in DOMAIN startTimes[w] : startTimes[w][j] # 0}}
       IN \E evs \in DistinctSeqs(busy), ok \in BOOLEAN :
            IF ~ok
            THEN /\ inFlight[w] > 0
                 /\ AIOFail(w)
                 /\ UNCHANGED <<ioCount, sent>>
            ELSE LET got == IF inFlight[w] > 0 THEN evs ELSE <<>>
                     st == [i \in DOMAIN startTimes[w] |->
                              IF \E k \in 1 .. Len(got) : got[k] = i - 1
                              THEN 0 ELSE startTimes[w][i]]
                     spans == IF params.Trace
                              THEN traceSpans[w] \o
                                   [k \in 1 .. Len(got) |->
                                      Span(startTimes[w][got[k] + 1], now)]
                              ELSE traceSpans[w]
                     full == params.Trace /\ inFlight[w] > 0
                             /\ Len(spans) >= traceBatchSize
                 IN /\ inFlight[w] = 0 => evs = <<>>
                    /\ startTimes' = [startTimes EXCEPT ![w] = st]
                    /\ freeSlots' = [freeSlots EXCEPT ![w] = @ \o got]
                    /\ inFlight' = [inFlight EXCEPT ![w] = @ - Len(got)]
                    /\ ioCount' = [ioCount EXCEPT ![w] = @ + Len(got)]
                    /\ traceSpans' = [traceSpans EXCEPT ![w] = IF full THEN <<>> ELSE spans]
                    /\ sent' = IF full
                               THEN [sent EXCEPT
                                       ![w] = Append(@, TraceMsg(w, spans, AIOMinStart(st, now)))]
                               ELSE sent
                    /\ pc' = [pc EXCEPT ![w] = "check"]
                    /\ UNCHANGED workerErr
    /\ UNCHANGED <<sustainVars, evalVars, optVars, unitVars>>
    /\ UNCHANGED <<params, runPc, done, qd, numWorkers, tokens, now, ioStart, ioEnd,
                   ioRes, issued, workerQD>>

\* select { case <-done: flush with MinStart = MaxInt64 and return; default: }
AIOCheckDone(w) ==
    /\ params.EngineType = "libaio"
    /\ pc[w] = "check"
    /\ IF done
       THEN /\ sent' = IF params.Trace /\ Len(traceSpans[w]) > 0
                       THEN [sent EXCEPT
                               ![w] = Append(@, TraceMsg(w, traceSpans[w], MaxInt64))]
                       ELSE sent
            /\ pc' = [pc EXCEPT ![w] = "exit"]
            /\ traceSpans' = [traceSpans EXCEPT ![w] = <<>>]
            /\ startTimes' = [startTimes EXCEPT ![w] = <<>>]
            /\ freeSlots' = [freeSlots EXCEPT ![w] = <<>>]
            /\ inFlight' = [inFlight EXCEPT ![w] = 0]
       ELSE /\ pc' = [pc EXCEPT ![w] = "fill"]
            /\ UNCHANGED <<sent, traceSpans, startTimes, freeSlots, inFlight>>
    /\ UNCHANGED <<sustainVars, evalVars, optVars, unitVars>>
    /\ UNCHANGED <<params, runPc, done, qd, numWorkers, tokens, now, ioStart, ioEnd,
                   ioRes, ioCount, issued, workerErr, workerQD>>

EngineNext ==
    \/ Tick
    \/ SyncRun
    \/ MonitorFinish
    \/ RunJoin
    \/ \E w \in WorkerIds : SyncSetup(w)
    \/ \E w \in WorkerIds : SyncAcquire(w)
    \/ \E w \in WorkerIds : SyncDone(w)
    \/ \E w \in WorkerIds : SyncIOComplete(w)
    \/ \E w \in WorkerIds : SyncRelease(w)
    \/ AIORun
    \/ \E w \in WorkerIds : AIOSetup(w)
    \/ \E w \in WorkerIds : AIOFill(w)
    \/ \E w \in WorkerIds : AIOReap(w)
    \/ \E w \in WorkerIds : AIOCheckDone(w)

\* ==================================================== sustain analyzer
EventStart == 1
EventEnd == -1

Event(t, type, rate) == [Time |-> t, Type |-> type, Rate |-> rate]

Less_StartFirst(a, b) ==
    IF a.Time = b.Time THEN a.Type > b.Type ELSE a.Time < b.Time

\* EventPQ.Less: by Time, and at equal Time by Type (EventEnd < EventStart)
Less(a, b) ==
    IF a.Time = b.Time THEN a.Type < b.Type ELSE a.Time < b.Time

Swap(h, i, j) == [h EXCEPT ![i] = h[j], ![j] = h[i]]

\* container/heap up(j) on the 0-based array h[1..Len(h)] (index j is h[j+1])
RECURSIVE HeapUp(_, _)
HeapUp(h, j) ==
    LET i == (j - 1) \div 2
    IN IF j = 0 \/ i = j \/ ~Less(h[j + 1], h[i + 1]) THEN h
       ELSE HeapUp(Swap(h, i + 1, j + 1), i)

\* container/heap down(i, n)
RECURSIVE HeapDown(_, _, _)
HeapDown(h, i, n) ==
    LET j1 == 2 * i + 1
        j2 == j1 + 1
        j == IF j2 < n /\ Less(h[j2 + 1], h[j1 + 1]) THEN j2 ELSE j1
    IN IF j1 >= n THEN h
       ELSE IF ~Less(h[j + 1], h[i + 1]) THEN h
       ELSE HeapDown(Swap(h, i + 1, j + 1), j, n)

\* heap.Push(&a.eventPQ, e): append, then up(n-1)
HeapPush(h, e) == HeapUp(Append(h, e), Len(h))

\* heap.Pop(&a.eventPQ): swap(0, n-1), down(0, n-1), drop the last
HeapPop(h) ==
    LET n == Len(h) - 1
    IN SubSeq(HeapDown(Swap(h, 1, n + 1), 0, n), 1, n)

\* rate := 1e9 / float64(dur), kept in units of 1/RateDenominator IOPS
Rate(dur) == (NanosPerSecond * RateDenominator) \div dur

\* math.Round of a rate: to the nearest integer, halves away from zero
Round(r) ==
    IF r >= 0 THEN (2 * r + RateDenominator) \div (2 * RateDenominator)
    ELSE 0 - ((2 * (0 - r) + RateDenominator) \div (2 * RateDenominator))

\* if a.currentRate < 0.001 { a.currentRate = 0 }
RateEpsilonInv == 1000
ClampRate(r) == IF r * RateEpsilonInv < RateDenominator THEN 0 ELSE r

\* for _, s := range msg.Spans: spans with dur <= 0 are skipped, the others push
\* their Start event and then their End event
RECURSIVE PushSpans(_, _)
PushSpans(h, spans) ==
    IF spans = <<>> THEN h
    ELSE LET sp == Head(spans)
             dur == sp.End - sp.Start
         IN IF dur <= 0 THEN PushSpans(h, Tail(spans))
            ELSE PushSpans(HeapPush(HeapPush(h, Event(sp.Start, EventStart, Rate(dur))),
                                    Event(sp.End, EventEnd, Rate(dur))),
                           Tail(spans))

AllReported_AnyOne(m, n) == Cardinality(DOMAIN m) >= 1

\* !(len(a.workerMinStarts) < a.expectedWorkers)
AllReported(m, n) == ~(Cardinality(DOMAIN m) < n)

SafeHorizon_Max(m) == Max({MaxInt64} \cup {m[w] : w \in DOMAIN m})

\* safeHorizon := MaxInt64; for each worker's MinStart t: if t < safeHorizon, t
SafeHorizon(m) == Min({MaxInt64} \cup {m[w] : w \in DOMAIN m})

Credit_Overwrite(hist, bin, delta) ==
    [b \in DOMAIN hist \cup {bin} |-> IF b = bin THEN delta ELSE hist[b]]

\* a.histogram[bin] += delta
Credit(hist, bin, delta) ==
    IF bin \in DOMAIN hist THEN [hist EXCEPT ![bin] = @ + delta]
    ELSE [b \in DOMAIN hist \cup {bin} |-> IF b = bin THEN delta ELSE hist[b]]

\* The analyzer's fields that processEventsUntil reads and writes, and the log
\* of the events it has popped.
AnState(pq, rate, last, hist, log) ==
    [pq |-> pq, rate |-> rate, last |-> last, hist |-> hist, log |-> log]

\* One iteration of processEventsUntil's loop on the event just popped: advance
\* the time (crediting the current rate's bin), apply the rate change, clamp.
ApplyEvent(st, evt) ==
    LET adv == evt.Time > st.last
        delta == evt.Time - st.last
        hist1 == IF adv /\ delta > 0
                 THEN Credit(st.hist, Round(st.rate), delta)
                 ELSE st.hist
        last1 == IF adv THEN evt.Time ELSE st.last
        rate1 == IF evt.Type = EventStart THEN st.rate + evt.Rate ELSE st.rate - evt.Rate
    IN [st EXCEPT !.rate = ClampRate(rate1), !.last = last1, !.hist = hist1,
                  !.log = Append(st.log, evt)]

\* processEventsUntil(limit): pop while the root's Time <= limit
RECURSIVE ProcessEventsUntil(_, _)
ProcessEventsUntil(st, limit) ==
    IF Len(st.pq) = 0 THEN st
    ELSE IF st.pq[1].Time > limit THEN st
    ELSE ProcessEventsUntil(ApplyEvent([st EXCEPT !.pq = HeapPop(st.pq)], st.pq[1]), limit)

\* The key of sort.Sort(sort.Reverse(sort.IntSlice(bins))): larger bins first
BinBefore_Ascending(a, b) == a < b

BinBefore(a, b) == a > b

\* The bins of the histogram in the order GetProfile walks them.
RECURSIVE SortedBins(_)
SortedBins(S) ==
    IF S = {} THEN <<>>
    ELSE LET b == CHOOSE x \in S : \A y \in S \ {x} : BinBefore(x, y)
         IN <<b>> \o SortedBins(S \ {b})

\* GetProfile: one point per bin, Y the bin and X the duration accumulated over
\* the bins walked so far (in nanoseconds here; the code divides by 1e9).
RECURSIVE ProfilePoints(_, _, _)
ProfilePoints(hist, bins, accum) ==
    IF bins = <<>> THEN <<>>
    ELSE LET acc == accum + hist[Head(bins)]
         IN <<[X |-> acc, Y |-> Head(bins)]>> \o ProfilePoints(hist, Tail(bins), acc)

GetProfile(hist) == ProfilePoints(hist, SortedBins(DOMAIN hist), 0)

\* ---- the analyzer's run
EmptyMap == [x \in {} |-> 0]

\* NewSustainAnalyzer(ch, workers): empty maps and queue, zero rate and lastTime
AnalyzerNew ==
    /\ workerMinStarts = EmptyMap
    /\ eventPQ = <<>>
    /\ currentRate = 0
    /\ lastTime = 0
    /\ histogram = EmptyMap
    /\ anPc = "running"
    /\ frontier = [w \in WorkerIds |-> 0]
    /\ msgCount = 0
    /\ allSpans = EmptyBag
    /\ popLog = <<>>
    /\ lastPops = 0
    /\ reordered = FALSE

SustainInit ==
    /\ expectedWorkers \in 1 .. MaxWorkers
    /\ AnalyzerNew

\* The spans a worker may still report: none starts before its frontier.
SpanTimes == 1 .. MaxSpanTime

SpansFrom(f) ==
    {sp \in [Start : SpanTimes, End : SpanTimes] : sp.Start >= f /\ sp.End >= sp.Start}

RECURSIVE SpanSeqs(_, _)
SpanSeqs(S, n) ==
    IF n = 0 THEN {<<>>}
    ELSE SpanSeqs(S, n - 1) \cup
         {Append(q, sp) : q \in {r \in SpanSeqs(S, n - 1) : Len(r) = n - 1}, sp \in S}

RECURSIVE BagOfSpans(_)
BagOfSpans(spans) ==
    IF spans = <<>> THEN EmptyBag
    ELSE IF Head(spans).End - Head(spans).Start <= 0 THEN BagOfSpans(Tail(spans))
    ELSE SetToBag({Head(spans)}) (+) BagOfSpans(Tail(spans))

\* processMsg(msg), for a TraceMsg of a worker that keeps its frontier promise
ProcessMsg(w) ==
    /\ anPc = "running"
    /\ msgCount < MaxMsgs
    /\ w < expectedWorkers
    /\ \E spans \in SpanSeqs(SpansFrom(frontier[w]), MaxSpans),
          minStart \in SpanTimes \cup {MaxInt64} :
         \E mins \in {[x \in DOMAIN workerMinStarts \cup {w} |->
                        IF x = w THEN minStart ELSE workerMinStarts[x]]} :
         \E st0 \in {AnState(PushSpans(eventPQ, spans), currentRate, lastTime,
                             histogram, popLog)} :
         \E st1 \in {IF AllReported(mins, expectedWorkers)
                     THEN ProcessEventsUntil(st0, SafeHorizon(mins))
                     ELSE st0} :
            /\ workerMinStarts' = mins
            /\ eventPQ' = st1.pq
            /\ currentRate' = st1.rate
            /\ lastTime' = st1.last
            /\ histogram' = st1.hist
            /\ popLog' = st1.log
            /\ lastPops' = Len(st1.log) - Len(popLog)
            /\ frontier' = [frontier EXCEPT ![w] = IF minStart > @ THEN minStart ELSE @]
            /\ allSpans' = allSpans (+) BagOfSpans(spans)
            /\ reordered' = (reordered \/
                              \E k \in DOMAIN spans, old \in BagToSet(allSpans) :
                                  /\ spans[k].End > spans[k].Start
                                  /\ spans[k].Start < old.Start)
    /\ msgCount' = msgCount + 1
    /\ UNCHANGED <<expectedWorkers, anPc>>
    /\ UNCHANGED <<engineVars, evalVars, optVars, unitVars>>

\* close(traceCh): the range loop of Run ends and flush() processes the rest
Flush ==
    /\ anPc = "running"
    /\ \E st1 \in {ProcessEventsUntil(AnState(eventPQ, currentRate, lastTime,
                                              histogram, popLog), MaxInt64)} :
          /\ eventPQ' = st1.pq
          /\ currentRate' = st1.rate
          /\ lastTime' = st1.last
          /\ histogram' = st1.hist
          /\ popLog' = st1.log
          /\ lastPops' = Len(st1.log) - Len(popLog)
    /\ anPc' = "done"
    /\ UNCHANGED <<expectedWorkers, workerMinStarts, frontier, msgCount, allSpans,
                   reordered>>
    /\ UNCHANGED <<engineVars, evalVars, optVars, unitVars>>

SustainNext ==
    \/ \E w \in WorkerIds : ProcessMsg(w)
    \/ Flush

\* ---- processEventsUntil, one iteration of its loop at a time
\* The spans of the two-worker scenario, in nanoseconds.
ScenarioSpans ==
    <<[Start |-> 0, End |-> 100000000], [Start |-> 50000000, End |-> 150000000]>>

\* The scenario's events as processMsg pushes them, their rate 1e9 / dur IOPS;
\* their times are kept in units of 5e7 ns.
RECURSIVE PushScenario(_, _)
PushScenario(h, spans) ==
    IF spans = <<>> THEN h
    ELSE LET sp == Head(spans)
             rate == (1000000000 \div (sp.End - sp.Start)) * RateDenominator
         IN PushScenario(HeapPush(HeapPush(h, Event(sp.Start \div 50000000, EventStart, rate)),
                                  Event(sp.End \div 50000000, EventEnd, rate)),
                         Tail(spans))

\* The queue when the loop is entered with no event processed before: the
\* events of up to MaxLoopSpans spans, or those of the scenario.
LoopQueues ==
    {PushSpans(<<>>, spans) : spans \in SpanSeqs(SpansFrom(1), MaxLoopSpans)}
        \cup {PushScenario(<<>>, ScenarioSpans)}

LoopInit ==
    /\ expectedWorkers = 2
    /\ workerMinStarts = EmptyMap
    /\ eventPQ \in LoopQueues
    /\ currentRate = 0
    /\ lastTime = 0
    /\ histogram = EmptyMap
    /\ anPc = "running"
    /\ frontier = [w \in WorkerIds |-> 0]
    /\ msgCount = 0
    /\ allSpans = EmptyBag
    /\ popLog = <<>>
    /\ lastPops = 0
    /\ reordered = FALSE

\* One iteration of the loop of processEventsUntil(math.MaxInt64)
LoopStep ==
    /\ anPc = "running"
    /\ Len(eventPQ) > 0
    /\ eventPQ[1].Time <= MaxInt64
    /\ \E st1 \in {ApplyEvent(AnState(HeapPop(eventPQ), currentRate, lastTime,
                                      histogram, popLog), eventPQ[1])} :
          /\ eventPQ' = st1.pq
          /\ currentRate' = st1.rate
          /\ lastTime' = st1.last
          /\ histogram' = st1.hist
          /\ popLog' = st1.log
    /\ lastPops' = lastPops + 1
    /\ UNCHANGED <<expectedWorkers, workerMinStarts, anPc, frontier, msgCount, allSpans,
                   reordered>>
    /\ UNCHANGED <<engineVars, evalVars, optVars, unitVars>>

\* The queue is empty: the loop ends and flush returns
LoopEnd ==
    /\ anPc = "running"
    /\ Len(eventPQ) = 0
    /\ anPc' = "done"
    /\ UNCHANGED <<expectedWorkers, workerMinStarts, eventPQ, currentRate, lastTime,
                   histogram, frontier, msgCount, allSpans, popLog, lastPops, reordered>>
    /\ UNCHANGED <<engineVars, evalVars, optVars, unitVars>>

LoopNext == LoopStep \/ LoopEnd

\* ---------------------------------------------------------- evaluator
\* float64 values of the evaluator are kept exact, as fractions <<num, den>>
\* in lowest terms with den > 0.
RECURSIVE GCD(_, _)
GCD(a, b) == IF b = 0 THEN a ELSE GCD(b, a % b)

Abs(n) == IF n < 0 THEN -n ELSE n

Rat(n, d) == <<n \div GCD(Abs(n), d), d \div GCD(Abs(n), d)>>

RatZero == <<0, 1>>
RatOne == <<1, 1>>
RatLE(a, b) == a[1] * b[2] <= b[1] * a[2]
RatAdd(a, b) == Rat(a[1] * b[2] + b[1] * a[2], a[2] * b[2])
RatSub(a, b) == Rat(a[1] * b[2] - b[1] * a[2], a[2] * b[2])
RatAbs(a) == <<Abs(a[1]), a[2]>>
\* (a / b) * k for b > 0
RatDivTimes(a, b, k) == Rat(a[1] * b[2] * k, a[2] * b[1])

\* State: a map from variable names to ints, any subset of the names present.
StateKeys == {"block_size", "read_pct"}
StateValues == 0 .. MaxStateValue
States == UNION {[K -> StateValues] : K \in SUBSET StateKeys}

\* s[k] on a Go map: the zero value when k is absent.
Lookup(s, k) == IF k \in DOMAIN s THEN s[k] ELSE 0

\* The key "bs=%d:qd=%d:w=%d": the three numbers it prints.
hashState(s) == <<Lookup(s, "block_size"), Lookup(s, "queue_depth"), Lookup(s, "workers")>>

\* engine.Result as the engine computes it at the end of a run; durations in
\* nanoseconds, NanosPerSecond of them to the second.
Result(ios, dur, iops, p50, p95, p99, conf) ==
    [TotalIOs |-> ios, Duration |-> dur, IOPS |-> iops,
     P50Latency |-> p50, P95Latency |-> p95, P99Latency |-> p99,
     MetricConfidence |-> conf]

Latencies == {1, 3}

EngineResults ==
    {Result(n, d * NanosPerSecond, Rat(n * NanosPerSecond, d * NanosPerSecond), l, l + 1, l + 2,
            Rat(l, 100)) :
        n \in 1 .. MaxRunIOs, d \in 1 .. MaxRunSeconds, l \in Latencies}

\* What eng.Run returns: an error, or a result.
EngineOutcomes ==
    {[err |-> TRUE, res |-> Result(0, 0, RatZero, 0, 0, 0, RatZero)]}
        \cup {[err |-> FALSE, res |-> r] : r \in EngineResults}

\* The merge of a cached result with a fresh one (mergedRes sets no P95).
Merge(cached, res) ==
    Result(cached.TotalIOs + res.TotalIOs,
           cached.Duration + res.Duration,
           Rat((cached.TotalIOs + res.TotalIOs) * NanosPerSecond,
               cached.Duration + res.Duration),
           (cached.P50Latency * cached.TotalIOs + res.P50Latency * res.TotalIOs)
               \div (cached.TotalIOs + res.TotalIOs),
           0,
           (cached.P99Latency * cached.TotalIOs + res.P99Latency * res.TotalIOs)
               \div (cached.TotalIOs + res.TotalIOs),
           RatDivTimes(RatAdd(cached.MetricConfidence, res.MetricConfidence), <<2, 1>>, 1))

Objective(type, metric, limit) == [Type |-> type, Metric |-> metric, Limit |-> limit]

\* The objective lists of the configurations examined.
Configs ==
    {<<Objective("maximize", "iops", "")>>,
     <<Objective("constraint", "p99_latency", "4ns"), Objective("maximize", "iops", "")>>,
     <<Objective("constraint", "p95_latency", "3"), Objective("maximize", "iops", "")>>}

\* parseLimit on the limits the configurations use: a duration string, a bare
\* number of nanoseconds, and 0 for anything else.
parseLimit(str) ==
    CASE str = "4ns" -> 4
      [] str = "4" -> 4
      [] str = "3" -> 3
      [] OTHER -> 0

ConstrainedLatency(obj, res) ==
    CASE obj.Metric = "p99_latency" -> res.P99Latency
      [] obj.Metric = "p50_latency" -> res.P50Latency
      [] obj.Metric = "p95_latency" -> res.P95Latency
      [] OTHER -> 0

\* The reason of the first failed constraint, <<>> (the empty string) if none.
RECURSIVE ConstraintFailure(_, _)
ConstraintFailure(objs, res) ==
    IF objs = <<>> THEN <<>>
    ELSE IF /\ Head(objs).Type = "constraint"
            /\ Head(objs).Metric \in {"p99_latency", "p50_latency", "p95_latency"}
            /\ ConstrainedLatency(Head(objs), res) > parseLimit(Head(objs).Limit)
         THEN <<"Constraint Failed", Head(objs).Metric,
                ConstrainedLatency(Head(objs), res), Head(objs).Limit>>
         ELSE ConstraintFailure(Tail(objs), res)

\* The value of a metric in the score (latencies in milliseconds, negated).
MetricValue(obj, res) ==
    CASE obj.Metric = "iops" -> res.IOPS
      [] obj.Metric = "p99_latency" -> Rat(-(res.P99Latency * 1000), NanosPerSecond)
      [] obj.Metric = "p50_latency" -> Rat(-(res.P50Latency * 1000), NanosPerSecond)
      [] OTHER -> RatZero

RECURSIVE ScoreSum(_, _)
ScoreSum(objs, res) ==
    IF objs = <<>> THEN RatZero
    ELSE LET obj == objs[Len(objs)]
             rest == ScoreSum(SubSeq(objs, 1, Len(objs) - 1), res)
         IN CASE obj.Type = "maximize" -> RatAdd(rest, MetricValue(obj, res))
              [] obj.Type = "minimize" -> RatSub(rest, MetricValue(obj, res))
              [] OTHER -> rest

calculateScore(objs, res) ==
    IF ConstraintFailure(objs, res) # <<>>
    THEN [raw |-> RatZero, reason |-> ConstraintFailure(objs, res)]
    ELSE [raw |-> ScoreSum(objs, res), reason |-> <<>>]

scaleScore_Unscored(raw, reason, initial) ==
    IF initial = RatZero THEN RatZero ELSE RatDivTimes(raw, initial, 1000)

scaleScore(raw, reason, initial) ==
    IF reason # <<>> THEN <<-1000, 1>> ELSE RatDivTimes(raw, initial, 1000)

\* initialScore after the baseline step of Evaluate.
Baseline(initial, raw, reason) ==
    IF RatLE(initial, RatOne) /\ reason = <<>>
    THEN (IF RatLE(RatOne, RatAbs(raw)) THEN RatAbs(raw) ELSE RatOne)
    ELSE initial

HistoryEntry(s, res, score, reason) ==
    [State |-> s, Result |-> res, Score |-> score, Reason |-> reason]

\* engine.Result{}
ZeroResult == Result(0, 0, RatZero, 0, 0, 0, RatZero)

\* The values of one return of Evaluate.
Returned(res, score, reason, err) ==
    [res |-> res, score |-> score, reason |-> reason, err |-> err]

FailedReturn_Scored == Returned(ZeroResult, <<-1000, 1>>, <<>>, TRUE)

\* return engine.Result{}, 0, "", err
FailedReturn == Returned(ZeroResult, RatZero, <<>>, TRUE)

\* NewEvaluator.
EvaluatorNew ==
    /\ Cache = EmptyMap
    /\ History = <<>>
    /\ initialScore = RatZero
    /\ evalCalls = 0
    /\ engCalls = 0
    /\ evalRet = Returned(ZeroResult, RatZero, <<>>, FALSE)
    /\ runs = EmptyMap

EvalInit ==
    /\ cfg \in Configs
    /\ EvaluatorNew

\* The successful runs of state s so far.
RunsOf(s) == IF s \in DOMAIN runs THEN runs[s] ELSE [n |-> 0, ios |-> 0, dur |-> 0]

stateCopy_Shared(s) == [ref |-> "caller"]

\* stateCopy := make(State); for k, v := range s { stateCopy[k] = v }
stateCopy(s) == [k \in DOMAIN s |-> s[k]]

\* The body of Evaluate(s), the engine returning out.
EvaluateCall(s, out) ==
    /\ evalCalls' = evalCalls + 1
    /\ engCalls' = engCalls + 1
    /\ IF out.err
       THEN /\ evalRet' = FailedReturn
            /\ UNCHANGED <<Cache, History, initialScore, runs>>
       ELSE \E key \in {hashState(s)} :
            \E res \in {IF key \in DOMAIN Cache THEN Merge(Cache[key], out.res) ELSE out.res} :
            \E sc \in {calculateScore(cfg, res)} :
            \E base \in {Baseline(initialScore, sc.raw, sc.reason)} :
                /\ Cache' = [k \in DOMAIN Cache \cup {key} |->
                                IF k = key THEN res ELSE Cache[k]]
                /\ initialScore' = base
                /\ evalRet' = Returned(res, scaleScore(sc.raw, sc.reason, base),
                                       sc.reason, FALSE)
                /\ History' = Append(History,
                                  HistoryEntry(stateCopy(s), res,
                                               scaleScore(sc.raw, sc.reason, base),
                                               sc.reason))
                /\ runs' = [t \in DOMAIN runs \cup {s} |->
                               IF t = s
                               THEN [n |-> RunsOf(s).n + 1,
                                     ios |-> RunsOf(s).ios + out.res.TotalIOs,
                                     dur |-> RunsOf(s).dur + out.res.Duration]
                               ELSE runs[t]]
    /\ UNCHANGED cfg

\* One call Evaluate(s) made directly on the evaluator.
Evaluate(s, out) ==
    /\ evalCalls < MaxEvals
    /\ EvaluateCall(s, out)
    /\ UNCHANGED <<engineVars, sustainVars, optVars, unitVars>>

EvalNext == \E s \in States, out \in EngineOutcomes : Evaluate(s, out)

\* The single objectives whose ordering of results is examined.
ScoreConfigs ==
    {<<Objective("minimize", "p99_latency", "")>>,
     <<Objective("minimize", "p50_latency", "")>>,
     <<Objective("maximize", "iops", "")>>}

ScoreInit ==
    /\ cfg \in ScoreConfigs
    /\ EvaluatorNew

\* ========================================================== optimizers
\* The latest HistoryEntry: what the latest successful Evaluate returned.
LastEntry == History[Len(History)]

Nil == [nil |-> TRUE]

Variable(name, values, range, step) ==
    [Name |-> name, Values |-> values, Range |-> range, Step |-> step]

\* The search spaces examined.
Searches ==
    {<<Variable("workers", <<>>, <<1, 8>>, 0)>>,
     <<Variable("queue_depth", <<1, 2, 4>>, <<>>, 0)>>,
     <<Variable("workers", <<>>, <<1, 3>>, 1), Variable("block_size", <<1, 2>>, <<>>, 0)>>,
     <<Variable("workers", <<>>, <<1, 5>>, 2)>>}

\* The annealing settings examined: two temperature levels of one step each,
\* one level of two steps, and two levels of two steps, each with and
\* without restarts.
AnnealSettings ==
    {[InitialTemp |-> <<2, 1>>, CoolingRate |-> <<1, 2>>, MinTemp |-> <<1, 2>>,
      StepsPerTemp |-> 1, RestartInterval |-> r] : r \in {0, 1}}
      \cup
    {[InitialTemp |-> <<1, 1>>, CoolingRate |-> <<1, 2>>, MinTemp |-> <<1, 2>>,
      StepsPerTemp |-> 2, RestartInterval |-> r] : r \in {0, 1}}
      \cup
    {[InitialTemp |-> <<3, 1>>, CoolingRate |-> <<1, 3>>, MinTemp |-> <<1, 2>>,
      StepsPerTemp |-> 2, RestartInterval |-> r] : r \in {0, 1}}

\* p.Workers of Evaluate: 1 unless the state sets workers.
ParamWorkers(s) == IF "workers" \in DOMAIN s THEN s["workers"] ELSE 1

\* A deterministic engine whose IOPS is min(workers * 1000, 4000), measured
\* over one second.
CappedResult(w) ==
    Result(Min({w * 1000, 4000}), NanosPerSecond,
           Rat(Min({w * 1000, 4000}) * NanosPerSecond, NanosPerSecond), 1, 2, 3, RatZero)

\* The results of an engine whose measurements vary from run to run.
VaryingResults ==
    {r \in EngineResults : r.Duration = NanosPerSecond /\ (r.P50Latency = 1 \/ r.TotalIOs = MaxRunIOs)}

\* What eng.Run returns for the state s.
EngineRun(s) ==
    IF engKind = "capped"
    THEN {[err |-> FALSE, res |-> CappedResult(ParamWorkers(s))]}
    ELSE {o \in EngineOutcomes : o.err \/ o.res \in VaryingResults}

\* co.eval.Evaluate(s) / ao.eval.Evaluate(s) from an optimizer.
OptEvaluate(s, out) ==
    /\ evalCalls < (IF engKind = "capped" THEN MaxCappedEvals ELSE MaxOptEvals)
    /\ EvaluateCall(s, out)
    /\ passed' = Append(passed, s)

ScoreGreater_Always(a, b) == TRUE

ScoreGreater_OrEqual(a, b) == RatLE(b, a)

\* a > b on scores
ScoreGreater(a, b) == ~RatLE(a, b)

\* ---- CoordinateOptimizer
\* The initial value of a variable: the middle of its values or of its range.
Midpoint(v) ==
    IF Len(v.Values) > 0 THEN v.Values[(Len(v.Values) \div 2) + 1]
    ELSE (v.Range[1] + v.Range[2]) \div 2

SearchNames == {search[k].Name : k \in DOMAIN search}

VarNamed(n) == search[CHOOSE k \in DOMAIN search : search[k].Name = n]

MidpointState == [n \in SearchNames |-> Midpoint(VarNamed(n))]

CoFrame ==
    [current |-> <<>>, bestRes |-> ZeroResult, bestScore |-> RatZero, improved |-> FALSE,
     vi |-> 1, tempState |-> <<>>, localBestVal |-> 0, localBestRes |-> ZeroResult,
     localBestScore |-> RatZero, step |-> 0, rangeImproved |-> FALSE, li |-> 1]

OptFail_Skip == UNCHANGED <<optPc, ret>>

\* return nil, engine.Result{}, err
OptFail ==
    /\ optPc' = "failed"
    /\ ret' = Nil

\* Optimize up to the first Evaluate: the midpoint state and its score.
CoStart ==
    /\ optKind = "coordinate"
    /\ optPc = "start"
    /\ \E out \in EngineRun(MidpointState) :
          /\ OptEvaluate(MidpointState, out)
          /\ IF out.err
             THEN /\ OptFail
                  /\ co' = [co EXCEPT !.current = MidpointState]
             ELSE /\ co' = [co EXCEPT !.current = MidpointState,
                                      !.bestRes = LastEntry'.Result,
                                      !.bestScore = LastEntry'.Score,
                                      !.improved = FALSE,
                                      !.vi = 1]
                  /\ optPc' = "var"
                  /\ UNCHANGED ret
    /\ UNCHANGED <<optKind, search, settings, engKind, ao>>
    /\ UNCHANGED <<engineVars, sustainVars, unitVars>>

\* The head of the loops of Optimize: the next variable's search begins, or the
\* pass ends and Optimize starts another pass or returns.
CoVar ==
    /\ optKind = "coordinate"
    /\ optPc = "var"
    /\ IF co.vi > Len(search)
       THEN IF co.improved
            THEN /\ co' = [co EXCEPT !.improved = FALSE, !.vi = 1]
                 /\ UNCHANGED <<optPc, ret>>
            ELSE /\ optPc' = "returned"
                 /\ ret' = co.current
                 /\ UNCHANGED co
       ELSE IF Len(search[co.vi].Values) > 0
            THEN /\ co' = [co EXCEPT !.localBestVal = co.current[search[co.vi].Name],
                                     !.localBestRes = ZeroResult,
                                     !.localBestScore = RatZero,
                                     !.tempState = co.current,
                                     !.li = 1]
                 /\ optPc' = "list"
                 /\ UNCHANGED ret
            ELSE /\ co' = [co EXCEPT !.localBestVal = co.current[search[co.vi].Name],
                                     !.tempState = co.current]
                 /\ optPc' = "range"
                 /\ UNCHANGED ret
    /\ UNCHANGED <<optKind, search, settings, engKind, ao, passed>>
    /\ UNCHANGED <<engineVars, sustainVars, evalVars, unitVars>>

\* score > bestScore || bestRes.IOPS == 0
ListAccepts(score, bestScore, bestRes) ==
    ScoreGreater(score, bestScore) \/ bestRes.IOPS = RatZero

\* One iteration of optimizeList's loop over v.Values, or its return.
CoList ==
    /\ optKind = "coordinate"
    /\ optPc = "list"
    /\ IF co.li > Len(search[co.vi].Values)
       THEN /\ optPc' = "varEnd"
            /\ UNCHANGED <<co, ret, passed, evalVars>>
       ELSE \E ts \in {[co.tempState EXCEPT ![search[co.vi].Name] = search[co.vi].Values[co.li]]} :
            \E out \in EngineRun(ts) :
               /\ OptEvaluate(ts, out)
               /\ IF out.err
                  THEN /\ OptFail
                       /\ co' = [co EXCEPT !.tempState = ts]
                  ELSE /\ co' = IF ListAccepts(LastEntry'.Score, co.localBestScore,
                                              co.localBestRes)
                                THEN [co EXCEPT !.tempState = ts,
                                                !.localBestScore = LastEntry'.Score,
                                                !.localBestRes = LastEntry'.Result,
                                                !.localBestVal = search[co.vi].Values[co.li],
                                                !.li = co.li + 1]
                                ELSE [co EXCEPT !.tempState = ts, !.li = co.li + 1]
                       /\ UNCHANGED <<optPc, ret>>
    /\ UNCHANGED <<optKind, search, settings, engKind, ao>>
    /\ UNCHANGED <<engineVars, sustainVars, unitVars>>

\* step := v.Step; if step <= 0 { step = span / 10 }; if step <= 0 { step = 1 }
InitialStep(v) ==
    IF v.Step > 0 THEN v.Step
    ELSE IF (v.Range[2] - v.Range[1]) \div 10 > 0 THEN (v.Range[2] - v.Range[1]) \div 10
    ELSE 1

\* optimizeRange up to its loop: the score of the state as it is, and the step.
CoRange ==
    /\ optKind = "coordinate"
    /\ optPc = "range"
    /\ \E out \in EngineRun(co.tempState) :
          /\ OptEvaluate(co.tempState, out)
          /\ IF out.err
             THEN /\ OptFail
                  /\ UNCHANGED co
             ELSE /\ co' = [co EXCEPT !.localBestRes = LastEntry'.Result,
                                      !.localBestScore = LastEntry'.Score,
                                      !.step = InitialStep(search[co.vi])]
                  /\ optPc' = "rangeUp"
                  /\ UNCHANGED ret
    /\ UNCHANGED <<optKind, search, settings, engKind, ao>>
    /\ UNCHANGED <<engineVars, sustainVars, unitVars>>

\* bestVal + step <= v.Range[1]
UpInRange(val, v) == val <= v.Range[2]

\* bestVal - step >= v.Range[0]
DownInRange(val, v) == val >= v.Range[1]

\* The first half of an iteration of optimizeRange's loop: try one step up.
CoRangeUp ==
    /\ optKind = "coordinate"
    /\ optPc = "rangeUp"
    /\ IF UpInRange(co.localBestVal + co.step, search[co.vi])
       THEN \E ts \in {[co.tempState EXCEPT ![search[co.vi].Name] = co.localBestVal + co.step]} :
            \E out \in EngineRun(ts) :
               /\ OptEvaluate(ts, out)
               /\ IF out.err
                  THEN /\ OptFail
                       /\ co' = [co EXCEPT !.tempState = ts, !.rangeImproved = FALSE]
                  ELSE /\ co' = IF ScoreGreater(LastEntry'.Score, co.localBestScore)
                                THEN [co EXCEPT !.tempState = ts,
                                                !.localBestScore = LastEntry'.Score,
                                                !.localBestRes = LastEntry'.Result,
                                                !.localBestVal = ts[search[co.vi].Name],
                                                !.rangeImproved = TRUE]
                                ELSE [co EXCEPT !.tempState = ts, !.rangeImproved = FALSE]
                       /\ optPc' = "rangeDown"
                       /\ UNCHANGED ret
       ELSE /\ co' = [co EXCEPT !.rangeImproved = FALSE]
            /\ optPc' = "rangeDown"
            /\ UNCHANGED <<ret, passed, evalVars>>
    /\ UNCHANGED <<optKind, search, settings, engKind, ao>>
    /\ UNCHANGED <<engineVars, sustainVars, unitVars>>

\* The end of an iteration of optimizeRange's loop: keep the step after an
\* improvement, halve it otherwise, and return once it is below 1.
AfterRangeStep(f) ==
    IF f.rangeImproved THEN "rangeUp"
    ELSE IF f.step \div 2 >= 1 THEN "rangeUp" ELSE "varEnd"

StepAfter_Kept(f) == f.step

\* if !improved { step /= 2 }
StepAfter(f) == IF f.rangeImproved THEN f.step ELSE f.step \div 2

\* The second half of an iteration of optimizeRange's loop: try one step down
\* unless the step up improved, then adjust the step.
CoRangeDown ==
    /\ optKind = "coordinate"
    /\ optPc = "rangeDown"
    /\ IF ~co.rangeImproved /\ DownInRange(co.localBestVal - co.step, search[co.vi])
       THEN \E ts \in {[co.tempState EXCEPT ![search[co.vi].Name] = co.localBestVal - co.step]} :
            \E out \in EngineRun(ts) :
               /\ OptEvaluate(ts, out)
               /\ IF out.err
                  THEN /\ OptFail
                       /\ co' = [co EXCEPT !.tempState = ts]
                  ELSE \E f \in {IF ScoreGreater(LastEntry'.Score, co.localBestScore)
                                 THEN [co EXCEPT !.tempState = ts,
                                                 !.localBestScore = LastEntry'.Score,
                                                 !.localBestRes = LastEntry'.Result,
                                                 !.localBestVal = ts[search[co.vi].Name],
                                                 !.rangeImproved = TRUE]
                                 ELSE [co EXCEPT !.tempState = ts]} :
                          /\ co' = [f EXCEPT !.step = StepAfter(f)]
                          /\ optPc' = AfterRangeStep(f)
                          /\ UNCHANGED ret
       ELSE /\ co' = [co EXCEPT !.step = StepAfter(co)]
            /\ optPc' = AfterRangeStep(co)
            /\ UNCHANGED <<ret, passed, evalVars>>
    /\ UNCHANGED <<optKind, search, settings, engKind, ao>>
    /\ UNCHANGED <<engineVars, sustainVars, unitVars>>

WithValue_Kept(st, name, val) == st

\* current[v.Name] = val
WithValue(st, name, val) == [st EXCEPT ![name] = val]

\* Back in Optimize after a variable's search: take its value if its score is
\* greater than bestScore.
CoVarEnd ==
    /\ optKind = "coordinate"
    /\ optPc = "varEnd"
    /\ co' = IF ScoreGreater(co.localBestScore, co.bestScore)
             THEN [co EXCEPT !.current = WithValue(co.current, search[co.vi].Name,
                                                   co.localBestVal),
                             !.bestScore = co.localBestScore,
                             !.bestRes = co.localBestRes,
                             !.improved = TRUE,
                             !.vi = co.vi + 1]
             ELSE [co EXCEPT !.vi = co.vi + 1]
    /\ optPc' = "var"
    /\ UNCHANGED <<optKind, search, settings, engKind, ao, ret, passed>>
    /\ UNCHANGED <<engineVars, sustainVars, evalVars, unitVars>>

CoordinateNext ==
    \/ CoStart
    \/ CoVar
    \/ CoList
    \/ CoRange
    \/ CoRangeUp
    \/ CoRangeDown
    \/ CoVarEnd

\* ---- AnnealingOptimizer
AoFrame ==
    [current |-> <<>>, currentRes |-> ZeroResult, currentScore |-> RatZero,
     best |-> <<>>, bestRes |-> ZeroResult, bestScore |-> RatZero,
     temp |-> RatZero, i |-> 0, stepsSinceImprovement |-> 0]

\* randomState: v.Values[rnd.Intn(len)] or v.Range[0] + rnd.Intn(span + 1)
RandomValues(v) ==
    IF Len(v.Values) > 0 THEN {v.Values[k] : k \in DOMAIN v.Values}
    ELSE {v.Range[1] + k : k \in 0 .. (v.Range[2] - v.Range[1])}

RandomStates ==
    {st \in [SearchNames -> UNION {RandomValues(search[k]) : k \in DOMAIN search}] :
        \A n \in SearchNames : st[n] \in RandomValues(VarNamed(n))}

Clamp_None(val, v) == val

\* if newVal < v.Range[0] { newVal = v.Range[0] }; if newVal > v.Range[1] { ... }
Clamp(val, v) ==
    IF val < v.Range[1] THEN v.Range[1]
    ELSE IF val > v.Range[2] THEN v.Range[2]
    ELSE val

\* int(rnd.NormFloat64() * maxJump), replaced by 1 or -1 when it is 0: any
\* non-zero jump (jumps beyond the span clamp like the span itself).
Jumps(v) ==
    {j \in (0 - Max({v.Range[2] - v.Range[1], 1})) .. Max({v.Range[2] - v.Range[1], 1}) : j # 0}

\* neighbor(s, tempRatio): one variable of s redrawn
NeighborValues(old, v) ==
    IF Len(v.Values) > 0 THEN {v.Values[k] : k \in DOMAIN v.Values}
    ELSE {Clamp(old + j, v) : j \in Jumps(v)}

Neighbors(st) ==
    UNION {{[st EXCEPT ![search[k].Name] = nv] : nv \in NeighborValues(st[search[k].Name], search[k])} :
              k \in DOMAIN search}

AcceptChoices_Any(delta, t) == BOOLEAN

\* acceptance > rnd.Float64() with rnd in [0, 1): acceptance is 1 for delta > 0,
\* exp(delta / temp) otherwise (1 at delta = 0), and 0 when delta / temp < -700.
AcceptChoices(delta, t) ==
    IF delta[1] >= 0 THEN {TRUE}
    ELSE IF delta[1] * t[2] < (0 - 700) * delta[2] * t[1] THEN {FALSE}
    ELSE BOOLEAN

\* Optimize up to the first Evaluate: a random state and its score.
AoStart ==
    /\ optKind = "annealing"
    /\ optPc = "start"
    /\ \E st \in RandomStates :
       \E out \in EngineRun(st) :
          /\ OptEvaluate(st, out)
          /\ IF out.err
             THEN /\ OptFail
                  /\ ao' = [ao EXCEPT !.current = st]
             ELSE /\ ao' = [ao EXCEPT !.current = st,
                                      !.currentRes = LastEntry'.Result,
                                      !.currentScore = LastEntry'.Score,
                                      !.best = st,
                                      !.bestRes = LastEntry'.Result,
                                      !.bestScore = LastEntry'.Score,
                                      !.temp = settings.InitialTemp,
                                      !.i = 0,
                                      !.stepsSinceImprovement = 0]
                  /\ optPc' = "loop"
                  /\ UNCHANGED ret
    /\ UNCHANGED <<optKind, search, settings, engKind, co>>
    /\ UNCHANGED <<engineVars, sustainVars, unitVars>>

Hot_OrEqual(f) == RatLE(settings.MinTemp, f.temp)

\* temp > minTemp
Hot(f) == ~RatLE(f.temp, settings.MinTemp)

\* The locals after the acceptance step for the neighbor nb just evaluated.
AfterAccept(f, nb, e, accept) ==
    IF ~accept THEN f
    ELSE IF ScoreGreater(e.Score, f.bestScore)
    THEN [f EXCEPT !.current = nb, !.currentScore = e.Score, !.currentRes = e.Result,
                   !.best = nb, !.bestScore = e.Score, !.bestRes = e.Result,
                   !.stepsSinceImprovement = 0]
    ELSE [f EXCEPT !.current = nb, !.currentScore = e.Score, !.currentRes = e.Result]

\* if restartInterval > 0 && stepsSinceImprovement >= restartInterval { ... }
AfterRestart(f) ==
    IF settings.RestartInterval > 0 /\ f.stepsSinceImprovement >= settings.RestartInterval
    THEN [f EXCEPT !.current = f.best, !.currentScore = f.bestScore,
                   !.currentRes = f.bestRes, !.stepsSinceImprovement = 0]
    ELSE f

\* One iteration of the inner loop of Optimize.
AoStep ==
    /\ optKind = "annealing"
    /\ optPc = "loop"
    /\ Hot(ao)
    /\ ao.i < settings.StepsPerTemp
    /\ \E nb \in Neighbors(ao.current) :
       \E out \in EngineRun(nb) :
          /\ OptEvaluate(nb, out)
          /\ IF out.err
             THEN /\ OptFail
                  /\ ao' = [ao EXCEPT !.stepsSinceImprovement = @ + 1]
             ELSE \E accept \in AcceptChoices(RatSub(LastEntry'.Score, ao.currentScore), ao.temp) :
                  \E f \in {AfterAccept([ao EXCEPT !.stepsSinceImprovement = @ + 1], nb,
                                        LastEntry', accept)} :
                     /\ ao' = [AfterRestart(f) EXCEPT !.i = ao.i + 1]
                     /\ UNCHANGED <<optPc, ret>>
    /\ UNCHANGED <<optKind, search, settings, engKind, co>>
    /\ UNCHANGED <<engineVars, sustainVars, unitVars>>

\* temp *= coolingRate, after stepsPerTemp steps
AoCool ==
    /\ optKind = "annealing"
    /\ optPc = "loop"
    /\ Hot(ao)
    /\ ao.i >= settings.StepsPerTemp
    /\ ao' = [ao EXCEPT !.temp = Rat(ao.temp[1] * settings.CoolingRate[1],
                                     ao.temp[2] * settings.CoolingRate[2]),
                        !.i = 0]
    /\ UNCHANGED <<optKind, search, settings, engKind, optPc, co, ret, passed>>
    /\ UNCHANGED <<engineVars, sustainVars, evalVars, unitVars>>

\* return best, bestRes, nil
AoReturn ==
    /\ optKind = "annealing"
    /\ optPc = "loop"
    /\ ~Hot(ao)
    /\ optPc' = "returned"
    /\ ret' = ao.best
    /\ UNCHANGED <<optKind, search, settings, engKind, co, ao, passed>>
    /\ UNCHANGED <<engineVars, sustainVars, evalVars, unitVars>>

AnnealingNext ==
    \/ AoStart
    \/ AoStep
    \/ AoCool
    \/ AoReturn

OptNext == CoordinateNext \/ AnnealingNext

\* The optimizations examined: the coordinate optimizer on every search space
\* with either engine (the range searched in steps of 2 with the deterministic
\* one), the annealing optimizer on the smaller ones (its longer schedules
\* with the deterministic engine on the list).
OptInit ==
    /\ optKind \in {"coordinate", "annealing"}
    /\ search \in Searches
    /\ settings \in AnnealSettings
    /\ engKind \in {"capped", "any"}
    /\ optKind = "coordinate" =>
          (settings.RestartInterval = 0 /\ settings.InitialTemp = <<2, 1>>)
    /\ settings.InitialTemp # <<2, 1>> => engKind = "capped"
    /\ (optKind = "annealing" /\ settings.InitialTemp # <<2, 1>>) =>
          (Len(search) = 1 /\ Len(search[1].Values) > 0)
    /\ search[1].Step > 1 => (optKind = "coordinate" /\ engKind = "capped")
    /\ (optKind = "annealing" /\ engKind = "any") => Len(search[1].Values) > 0 \/ Len(search) > 1
    /\ optPc = "start"
    /\ co = CoFrame
    /\ ao = AoFrame
    /\ ret = Nil
    /\ passed = <<>>

\* ------------------------------------------- the monitoring loop of Run
\* SyncEngine.Run, UringEngine.Run and LibAIOEngine.Run share this loop.  The
\* ticker fires every 100 ms; a sample is the I/Os completed since the last
\* tick over the time since then, here in I/Os per tick.
RECURSIVE SampleSum(_)
SampleSum(xs) == IF xs = <<>> THEN 0 ELSE Head(xs) + SampleSum(Tail(xs))

RECURSIVE SampleSquares(_)
SampleSquares(xs) == IF xs = <<>> THEN 0 ELSE Head(xs) * Head(xs) + SampleSquares(Tail(xs))

\* mean > 0, with mean = sum / len(samples)
MeanPositive(xs) == Len(xs) > 0 /\ SampleSum(xs) > 0

\* finalRelErr <= params.ErrorTarget, with finalRelErr = stdErr / mean and
\* stdErr = sqrt(sum((x - mean)^2) / n) / sqrt(n): compared as squares,
\* (n * sum(x^2) - sum(x)^2) / (n * sum(x)^2) <= target^2.
RelErrWithin(xs, target) ==
    (Len(xs) * SampleSquares(xs) - SampleSum(xs) * SampleSum(xs)) * target[2] * target[2]
        <= target[1] * target[1] * Len(xs) * SampleSum(xs) * SampleSum(xs)

\* if elapsed > params.MinRuntime { if len(iopsSamples) > 5 && mean > 0 &&
\* params.ErrorTarget > 0 { if finalRelErr <= params.ErrorTarget {
Converges(el, xs, p) ==
    /\ el > p.MinRuntime
    /\ Len(xs) > 5
    /\ MeanPositive(xs)
    /\ p.ErrorTarget[1] > 0
    /\ RelErrWithin(xs, p.ErrorTarget)

\* The monitor without its Timeout branch.
TimesOut_Never(el, p) == FALSE

\* if params.MaxRuntime > 0 && elapsed >= params.MaxRuntime
TimesOut(el, p) == p.MaxRuntime > 0 /\ el >= p.MaxRuntime

MonitorParams ==
    [MinRuntime : 0 .. MaxRuntimeTicks,
     MaxRuntime : 0 .. MaxRuntimeTicks,
     ErrorTarget : {<<0, 1>>, <<1, 5>>, <<1, 1>>}]

MonitorInit ==
    /\ monParams \in MonitorParams
    /\ monPc = "monitor"
    /\ elapsed = 0
    /\ iopsSamples = <<>>
    /\ monReason = ""
    /\ duration = 0

\* case <-monitorTicker.C: one iteration of the monitoring loop
MonitorLoop ==
    /\ monPc = "monitor"
    /\ elapsed < MaxMonitorTicks
    /\ elapsed' = elapsed + 1
    /\ \E deltaOps \in 0 .. MaxTickOps : iopsSamples' = Append(iopsSamples, deltaOps)
    /\ IF Converges(elapsed', iopsSamples', monParams)
       THEN monReason' = "Converged" /\ monPc' = "finished"
       ELSE IF TimesOut(elapsed', monParams)
            THEN monReason' = "Timeout" /\ monPc' = "finished"
            ELSE UNCHANGED <<monReason, monPc>>
    /\ UNCHANGED <<monParams, duration>>
    /\ UNCHANGED <<engineVars, sustainVars, evalVars, optVars>>
    /\ UNCHANGED <<partVars, histVars, offVars, kneeVars, joinVars, slotVars>>

\* Finished: close(done), wg.Wait(), duration := time.Since(start), and the
\* Result with TerminationReason = reason
MonitorReturn ==
    /\ monPc = "finished"
    /\ \E drain \in 0 .. MaxDrainTicks : duration' = elapsed + drain
    /\ monPc' = "returned"
    /\ UNCHANGED <<monParams, elapsed, iopsSamples, monReason>>
    /\ UNCHANGED <<engineVars, sustainVars, evalVars, optVars>>
    /\ UNCHANGED <<partVars, histVars, offVars, kneeVars, joinVars, slotVars>>

MonitorNext == MonitorLoop \/ MonitorReturn

MonitorParked ==
    /\ monParams = [MinRuntime |-> 0, MaxRuntime |-> 0, ErrorTarget |-> <<0, 1>>]
    /\ monPc = "monitor"
    /\ elapsed = 0
    /\ iopsSamples = <<>>
    /\ monReason = ""
    /\ duration = 0

\* ------------------- the queue-depth distribution of the ring and async drivers
\* numWorkers := params.Workers; if numWorkers <= 0 { numWorkers = 1 }
\* if params.QueueDepth <= 0 { params.QueueDepth = numWorkers }
UringQueueDepth(p) ==
    LET n == IF p.Workers <= 0 THEN 1 ELSE p.Workers
    IN IF p.QueueDepth <= 0 THEN n ELSE p.QueueDepth

\* if numWorkers > params.QueueDepth { numWorkers = params.QueueDepth }
UringNumWorkers(p) ==
    LET n == IF p.Workers <= 0 THEN 1 ELSE p.Workers
    IN IF n > UringQueueDepth(p) THEN UringQueueDepth(p) ELSE n

PartParams ==
    [EngineType : {"uring", "libaio"},
     Workers : 1 .. MaxPartWorkers,
     QueueDepth : -1 .. MaxPartQD]

PartInit ==
    /\ partParams \in PartParams
    /\ partPc = "start"
    /\ workerSlots = <<>>

\* UringEngine.Run up to the start of its workers: worker i gets workerQD slots
UringDistribute ==
    /\ partPc = "start"
    /\ partParams.EngineType = "uring"
    /\ workerSlots' = [i \in 0 .. (UringNumWorkers(partParams) - 1) |->
                         WorkerQD(i, UringQueueDepth(partParams), UringNumWorkers(partParams))]
    /\ partPc' = "started"
    /\ UNCHANGED partParams
    /\ UNCHANGED <<engineVars, sustainVars, evalVars, optVars>>
    /\ UNCHANGED <<monVars, histVars, offVars, kneeVars, joinVars, slotVars>>

\* LibAIOEngine.Run up to the start of its workers
AIODistribute ==
    /\ partPc = "start"
    /\ partParams.EngineType = "libaio"
    /\ workerSlots' = [i \in 0 .. (AIONumWorkers(partParams) - 1) |->
                         WorkerQD(i, AIOQueueDepth(partParams), AIONumWorkers(partParams))]
    /\ partPc' = "started"
    /\ UNCHANGED partParams
    /\ UNCHANGED <<engineVars, sustainVars, evalVars, optVars>>
    /\ UNCHANGED <<monVars, histVars, offVars, kneeVars, joinVars, slotVars>>

PartNext == UringDistribute \/ AIODistribute

PartParked ==
    /\ partParams = [EngineType |-> "uring", Workers |-> 1, QueueDepth |-> 1]
    /\ partPc = "start"
    /\ workerSlots = <<>>

\* ------------------------------------------------------ stats.Histogram
\* init(): curr := linearThreshold; for curr < limit { curr *= expFactor; append }
RECURSIVE ExpLimits(_)
ExpLimits(curr) ==
    IF curr < bucketCeiling THEN <<curr * expFactor>> \o ExpLimits(curr * expFactor) ELSE <<>>

\* bucketLimits: 0, 1, .., linearThreshold, then the exponential part.  Go's
\* index i is position i + 1 here.
bucketLimits == [i \in 1 .. (linearThreshold + 1) |-> i - 1] \o ExpLimits(linearThreshold)

\* The binary search of findBucket over bucketLimits[low .. high]
RECURSIVE SearchBucket(_, _, _)
SearchBucket(low, high, val) ==
    IF low <= high
    THEN LET mid == (low + high) \div 2
         IN IF bucketLimits[mid + 1] < val
            THEN SearchBucket(mid + 1, high, val)
            ELSE SearchBucket(low, mid - 1, val)
    ELSE low

findBucket(val) ==
    IF val < linearThreshold THEN val
    ELSE LET low == SearchBucket(linearThreshold, Len(bucketLimits) - 1, val)
         IN IF low >= Len(bucketLimits) THEN Len(bucketLimits) - 1 ELSE low

\* NewHistogram: Counts all zero, MinSeen = math.MaxInt64, MaxSeen = 0
NewHistogram(counts) ==
    [Counts |-> counts, TotalCount |-> 0, MinSeen |-> MaxInt64, MaxSeen |-> 0, Sum |-> 0]

ZeroCounts == [i \in 1 .. Len(bucketLimits) |-> 0]

\* Record on a histogram with its Counts array in place
HistogramRecord(h, valUs) ==
    IF valUs < 0 THEN h
    ELSE [Counts |-> [h.Counts EXCEPT ![findBucket(valUs) + 1] = @ + 1],
          TotalCount |-> h.TotalCount + 1,
          MinSeen |-> IF valUs < h.MinSeen THEN valUs ELSE h.MinSeen,
          MaxSeen |-> IF valUs > h.MaxSeen THEN valUs ELSE h.MaxSeen,
          Sum |-> h.Sum + valUs]

\* if other.MinSeen < h.MinSeen { h.MinSeen = other.MinSeen }
MergedMin(a, b) == IF b < a THEN b ELSE a

\* Merge on histograms with their Counts arrays in place
HistogramMerge(h, other) ==
    IF other.TotalCount = 0 THEN h
    ELSE IF h.TotalCount = 0 THEN other
    ELSE [Counts |-> [i \in DOMAIN h.Counts |-> h.Counts[i] + other.Counts[i]],
          TotalCount |-> h.TotalCount + other.TotalCount,
          MinSeen |-> MergedMin(h.MinSeen, other.MinSeen),
          MaxSeen |-> IF other.MaxSeen > h.MaxSeen THEN other.MaxSeen ELSE h.MaxSeen,
          Sum |-> h.Sum + other.Sum]

QuantileTarget_Complement(n, q) == (n * (q[2] - q[1])) \div q[2]

\* target := int64(float64(h.TotalCount) * q), q a fraction <<num, den>>
QuantileTarget(n, q) == (n * q[1]) \div q[2]

\* for i, count := range h.Counts { current += count; if current >= target {
\* return bucketLimits[i] } }; return h.MaxSeen
RECURSIVE ScanCounts(_, _, _, _)
ScanCounts(h, i, current, target) ==
    IF i > Len(h.Counts) THEN h.MaxSeen
    ELSE IF current + h.Counts[i] >= target THEN bucketLimits[i]
    ELSE ScanCounts(h, i + 1, current + h.Counts[i], target)

ValueAtQuantile(h, q) ==
    IF h.TotalCount = 0 THEN 0
    ELSE ScanCounts(h, 1, 0, QuantileTarget(h.TotalCount, q))

\* The histograms of a run, the values recorded and the quantiles read.
HistIds == {"a", "b", "c"}

RecordValues == {-1, 0, 1, 3, 5, 9}

Quantiles == {<<0, 1>>, <<1, 2>>, <<19, 20>>, <<99, 100>>, <<1, 1>>}

\* The histogram id with the array its Counts points to in place.
Deref(id) == [hs[id] EXCEPT !.Counts = arrays[@]]

CopiedCounts_Shared(own, others) == others

\* h.Counts = make([]int64, len(other.Counts)); copy(h.Counts, other.Counts):
\* the receiver's Counts is a fresh array, which takes the place of its own
CopiedCounts(own, others) == own

HistInit ==
    /\ hs = [id \in HistIds |-> NewHistogram(id)]
    /\ arrays = [id \in HistIds |-> ZeroCounts]
    /\ recorded = [id \in HistIds |-> 0]
    /\ lastMerge = <<>>
    /\ histOps = [records |-> 0, merges |-> 0]
    /\ histPc = "recording"
    /\ quants = <<>>

\* h.Record(valUs)
HistRecord(id, valUs) ==
    /\ histPc = "recording"
    /\ histOps.records < MaxRecords
    /\ \E r \in {HistogramRecord(Deref(id), valUs)} :
         /\ hs' = [hs EXCEPT ![id] = [r EXCEPT !.Counts = hs[id].Counts]]
         /\ arrays' = [arrays EXCEPT ![hs[id].Counts] = r.Counts]
    /\ recorded' = [recorded EXCEPT ![id] = IF valUs < 0 THEN @ ELSE @ + 1]
    /\ histOps' = [histOps EXCEPT !.records = @ + 1]
    /\ UNCHANGED <<lastMerge, histPc, quants>>
    /\ UNCHANGED <<engineVars, sustainVars, evalVars, optVars>>
    /\ UNCHANGED <<monVars, partVars, offVars, kneeVars, joinVars, slotVars>>

\* h.Merge(other)
HistMerge(id, other) ==
    /\ histPc = "recording"
    /\ id # other
    /\ histOps.merges < MaxMerges
    /\ \E r \in {HistogramMerge(Deref(id), Deref(other))} :
         IF hs[other].TotalCount # 0 /\ hs[id].TotalCount = 0
         THEN /\ hs' = [hs EXCEPT ![id] = [r EXCEPT !.Counts = CopiedCounts(id, hs[other].Counts)]]
              /\ arrays' = [arrays EXCEPT ![id] = r.Counts]
         ELSE /\ hs' = [hs EXCEPT ![id] = [r EXCEPT !.Counts = hs[id].Counts]]
              /\ arrays' = [arrays EXCEPT ![hs[id].Counts] = r.Counts]
    /\ recorded' = [recorded EXCEPT ![id] = @ + recorded[other]]
    /\ lastMerge' = <<id, other>>
    /\ histOps' = [histOps EXCEPT !.merges = @ + 1]
    /\ UNCHANGED <<histPc, quants>>
    /\ UNCHANGED <<engineVars, sustainVars, evalVars, optVars>>
    /\ UNCHANGED <<monVars, partVars, offVars, kneeVars, joinVars, slotVars>>

\* h.ValueAtQuantile(q) for each quantile read
HistQuantiles(id) ==
    /\ histPc = "recording"
    /\ quants' = [of |-> id, at |-> [q \in Quantiles |-> ValueAtQuantile(Deref(id), q)]]
    /\ histPc' = "read"
    /\ UNCHANGED <<hs, arrays, recorded, lastMerge, histOps>>
    /\ UNCHANGED <<engineVars, sustainVars, evalVars, optVars>>
    /\ UNCHANGED <<monVars, partVars, offVars, kneeVars, joinVars, slotVars>>

HistNext ==
    \/ \E id \in HistIds, valUs \in RecordValues : HistRecord(id, valUs)
    \/ \E id \in HistIds, other \in HistIds : HistMerge(id, other)
    \/ \E id \in HistIds : HistQuantiles(id)

HistParked == HistInit

\* ------------------------------------------------------ worker offsets
OffsetParams ==
    [Driver : {"sync", "libaio", "uring"},
     Size : 0 .. MaxFileSize,
     BlockSize : 0 .. MaxBlockSize,
     Rand : BOOLEAN]

RandomBlocks_Inclusive(n) == 0 .. n

\* r.Int63n(maxBlocks): any block number in [0, maxBlocks)
RandomBlocks(n) == 0 .. (n - 1)

OffsetInit ==
    /\ offParams \in OffsetParams
    /\ offPc = "setup"
    /\ maxBlocks = 0
    /\ lastOffset = 0
    /\ offsets = <<>>

\* The worker up to its loop: Mmap of a buffer of no bytes fails, then
\* maxBlocks := size / BlockSize and the error return when it is <= 0; the
\* ring and aio workers draw their first sequential offset.
OffsetSetup ==
    /\ offPc = "setup"
    /\ IF offParams.BlockSize <= 0
       THEN offPc' = "error" /\ UNCHANGED <<maxBlocks, lastOffset>>
       ELSE /\ maxBlocks' = offParams.Size \div offParams.BlockSize
            /\ IF maxBlocks' <= 0
               THEN offPc' = "error" /\ UNCHANGED lastOffset
               ELSE /\ offPc' = "loop"
                    /\ IF offParams.Driver = "sync"
                       THEN UNCHANGED lastOffset
                       ELSE \E k \in RandomBlocks(maxBlocks') :
                                lastOffset' = k * offParams.BlockSize
    /\ UNCHANGED <<offParams, offsets>>
    /\ UNCHANGED <<engineVars, sustainVars, evalVars, optVars>>
    /\ UNCHANGED <<monVars, partVars, histVars, kneeVars, joinVars, slotVars>>

\* The offset of the next I/O.  The sync worker counts its I/Os (ioCount is
\* the number issued before this one); the ring and aio workers step
\* lastOffset by BlockSize modulo the file size.
OffsetIssue ==
    /\ offPc = "loop"
    /\ Len(offsets) < MaxOffsetIOs
    /\ IF offParams.Rand
       THEN /\ \E k \in RandomBlocks(maxBlocks) :
                 offsets' = Append(offsets, k * offParams.BlockSize)
            /\ UNCHANGED lastOffset
       ELSE IF offParams.Driver = "sync"
            THEN /\ offsets' = Append(offsets, (Len(offsets) * offParams.BlockSize)
                                                % (maxBlocks * offParams.BlockSize))
                 /\ UNCHANGED lastOffset
            ELSE /\ offsets' = Append(offsets, lastOffset)
                 /\ lastOffset' = (lastOffset + offParams.BlockSize) % offParams.Size
    /\ UNCHANGED <<offParams, offPc, maxBlocks>>
    /\ UNCHANGED <<engineVars, sustainVars, evalVars, optVars>>
    /\ UNCHANGED <<monVars, partVars, histVars, kneeVars, joinVars, slotVars>>

\* done is closed: the worker returns its result
OffsetDone ==
    /\ offPc = "loop"
    /\ offPc' = "returned"
    /\ UNCHANGED <<offParams, maxBlocks, lastOffset, offsets>>
    /\ UNCHANGED <<engineVars, sustainVars, evalVars, optVars>>
    /\ UNCHANGED <<monVars, partVars, histVars, kneeVars, joinVars, slotVars>>

OffsetNext == OffsetSetup \/ OffsetIssue \/ OffsetDone

OffsetParked ==
    /\ offParams = [Driver |-> "sync", Size |-> 0, BlockSize |-> 0, Rand |-> FALSE]
    /\ offPc = "setup"
    /\ maxBlocks = 0
    /\ lastOffset = 0
    /\ offsets = <<>>

\* ------------------------------------------------------ analyze.FindKnee
\* Binary floating point, round to nearest even: a float is sign * m / 2^e
\* with 2^(MantissaBits-1) <= m < 2^MantissaBits, or zero.
RECURSIVE Pow2(_)
Pow2(k) == IF k = 0 THEN 1 ELSE 2 * Pow2(k - 1)

FloatZero == [sign |-> 0, m |-> 0, e |-> 0]

\* The exponent that brings n / d (0 < n / d <= 1) to a full significand.
RECURSIVE FloatExp(_, _, _)
FloatExp(n, d, e) ==
    IF n * Pow2(e) >= Pow2(MantissaBits - 1) * d THEN e ELSE FloatExp(n, d, e + 1)

RoundHalfEven(n, d) ==
    LET f == n \div d
        r == n % d
    IN IF 2 * r < d THEN f
       ELSE IF 2 * r > d THEN f + 1
       ELSE IF f % 2 = 0 THEN f ELSE f + 1

\* The float nearest to n / d, d > 0 and |n / d| <= 1
FloatOf(n, d) ==
    IF n = 0 THEN FloatZero
    ELSE LET a == Abs(n)
             e == FloatExp(a, d, 0)
             m == RoundHalfEven(a * Pow2(e), d)
         IN IF m = Pow2(MantissaBits)
            THEN [sign |-> IF n < 0 THEN -1 ELSE 1, m |-> Pow2(MantissaBits - 1), e |-> e - 1]
            ELSE [sign |-> IF n < 0 THEN -1 ELSE 1, m |-> m, e |-> e]

\* x - y, rounded
FloatSub(x, y) ==
    LET E == IF x.e > y.e THEN x.e ELSE y.e
    IN FloatOf(x.sign * x.m * Pow2(E - x.e) - y.sign * y.m * Pow2(E - y.e), Pow2(E))

\* x > y
FloatGreater(x, y) ==
    IF x.sign # y.sign THEN x.sign > y.sign
    ELSE IF x.sign = 0 THEN FALSE
    ELSE IF x.sign = 1 THEN x.e < y.e \/ (x.e = y.e /\ x.m > y.m)
    ELSE x.e > y.e \/ (x.e = y.e /\ x.m < y.m)

Point(x, y) == [X |-> x, Y |-> y]

\* The insertion step of sort.Slice on a short slice: p moves left past the
\* points whose X is larger.
RECURSIVE InsertByX(_, _)
InsertByX(s, p) ==
    IF s = <<>> THEN <<p>>
    ELSE IF p.X < s[Len(s)].X
         THEN Append(InsertByX(SubSeq(s, 1, Len(s) - 1), p), s[Len(s)])
         ELSE Append(s, p)

\* sort.Slice(points, func(i, j int) bool { return points[i].X < points[j].X })
RECURSIVE SortByX(_)
SortByX(s) ==
    IF s = <<>> THEN <<>>
    ELSE InsertByX(SortByX(SubSeq(s, 1, Len(s) - 1)), s[Len(s)])

KneeDistance_Swapped(yNorm, xNorm) == FloatSub(xNorm, yNorm)

\* dist := yNorm - xNorm
KneeDistance(yNorm, xNorm) == FloatSub(yNorm, xNorm)

\* for _, p := range points { ...; if dist > maxDist { maxDist = dist; knee = p } }
RECURSIVE KneeScan(_, _, _, _, _)
KneeScan(ps, i, maxDist, best, norm) ==
    IF i > Len(ps) THEN best
    ELSE LET xNorm == FloatOf(ps[i].X - norm.minX, norm.maxX - norm.minX)
             yNorm == FloatOf(ps[i].Y - norm.minY, norm.maxY - norm.minY)
             dist == KneeDistance(yNorm, xNorm)
         IN IF FloatGreater(dist, maxDist)
            THEN KneeScan(ps, i + 1, dist, ps[i], norm)
            ELSE KneeScan(ps, i + 1, maxDist, best, norm)

\* FindKnee: the point returned and the caller's slice as the call leaves it
FindKnee(ps) ==
    IF Len(ps) < 3
    THEN [knee |-> IF Len(ps) > 0 THEN ps[Len(ps)] ELSE Point(0, 0), points |-> ps]
    ELSE LET sorted == SortByX(ps)
             norm == [minX |-> sorted[1].X,
                      maxX |-> sorted[Len(sorted)].X,
                      minY |-> Min({sorted[i].Y : i \in 1 .. Len(sorted)}),
                      maxY |-> Max({sorted[i].Y : i \in 1 .. Len(sorted)})]
         IN IF norm.maxX = norm.minX \/ norm.maxY = norm.minY
            THEN [knee |-> sorted[Len(sorted)], points |-> sorted]
            ELSE [knee |-> KneeScan(sorted, 1, FloatOf(-1, 1), Point(0, 0), norm),
                  points |-> sorted]

\* The point lists FindKnee is called with: every list of up to MaxPoints
\* points with coordinates up to MaxCoord, the lists of TestFindKnee, and the
\* saturation curves y = min(x, K) sampled at x = 1..N.
SmallPoints == {Point(x, y) : x \in 0 .. MaxCoord, y \in 0 .. MaxCoord}

SmallLists == UNION {[1 .. n -> SmallPoints] : n \in 0 .. MaxPoints}

TestLists ==
    {<<Point(1, 10), Point(2, 20), Point(3, 28), Point(4, 30), Point(5, 31)>>,
     <<Point(1, 10), Point(2, 20), Point(3, 30), Point(4, 40)>>,
     <<Point(1, 100), Point(2, 100), Point(3, 100)>>,
     <<Point(1, 0), Point(2, 0), Point(3, 100), Point(4, 100)>>}

SaturationCurve(N, K) == [x \in 1 .. N |-> Point(x, IF x < K THEN x ELSE K)]

SaturationCurves == {SaturationCurve(N, K) : N \in 3 .. MaxCurveN, K \in 2 .. MaxCurveN}

KneeInit ==
    /\ points \in SmallLists \cup TestLists \cup SaturationCurves
    /\ kneePc = "call"
    /\ knee = Point(0, 0)

\* knee := FindKnee(points)
KneeCall ==
    /\ kneePc = "call"
    /\ \E r \in {FindKnee(points)} :
         /\ knee' = r.knee
         /\ points' = r.points
    /\ kneePc' = "returned"
    /\ UNCHANGED <<engineVars, sustainVars, evalVars, optVars>>
    /\ UNCHANGED <<monVars, partVars, histVars, offVars, joinVars, slotVars>>

KneeNext == KneeCall

KneeParked ==
    /\ points = <<>>
    /\ kneePc = "call"
    /\ knee = Point(0, 0)

\* ---------------------------------------------------------------------
\* The goroutines of one Run: the monitor, the workers, the results channel
\* and the WaitGroup (SyncEngine.Run and LibAIOEngine.Run).
\* ---------------------------------------------------------------------

JoinWorkerIds == 0 .. (MaxJoinWorkers - 1)

JoinParams ==
    [EngineType : {"sync", "libaio"}, Workers : 1 .. MaxJoinWorkers,
     QueueDepth : 0 .. MaxJoinQD, MaxRuntime : 0 .. MaxJoinRuntime]

\* for i := 0; i < params.Workers; i++ (sync), i < numWorkers (libaio)
StartedWorkers(p) == IF p.EngineType = "sync" THEN p.Workers ELSE AIONumWorkers(p)

\* results := make(chan workerResult, params.Workers), resp. numWorkers
ResultsCapacity_Unbuffered(p) == 0

ResultsCapacity(p) == StartedWorkers(p)

\* qd := params.QueueDepth; if qd <= 0 { qd = params.Workers }
TokenCount(p) == IF p.QueueDepth <= 0 THEN p.Workers ELSE p.QueueDepth

JoinInit ==
    /\ joinParams \in JoinParams
    /\ joinPc = "start"
    /\ joinElapsed = 0
    /\ doneClosed = FALSE
    /\ joinTokens = 0
    /\ goPc = [w \in JoinWorkerIds |-> "idle"]
    /\ goRes = [w \in JoinWorkerIds |-> "none"]
    /\ opsCounter = 0
    /\ results = <<>>
    /\ resultsClosed = FALSE
    /\ sends = [w \in JoinWorkerIds |-> 0]
    /\ wg = 0
    /\ merged = {}
    /\ firstErr = FALSE
    /\ panicked = FALSE

\* Run up to the monitoring loop: the tokens are filled in (sync), and per
\* worker wg.Add(1) and the go statement.
JoinRun ==
    /\ joinPc = "start"
    /\ joinPc' = "monitor"
    /\ joinTokens' = IF joinParams.EngineType = "sync" THEN TokenCount(joinParams) ELSE 0
    /\ wg' = StartedWorkers(joinParams)
    /\ goPc' = [w \in JoinWorkerIds |->
                  IF w < StartedWorkers(joinParams) THEN "setup" ELSE "idle"]
    /\ UNCHANGED <<joinParams, joinElapsed, doneClosed, goRes, opsCounter, results,
                   resultsClosed, sends, merged, firstErr, panicked>>
    /\ UNCHANGED <<engineVars, sustainVars, evalVars, optVars>>
    /\ UNCHANGED <<monVars, partVars, histVars, offVars, kneeVars, slotVars>>

\* One monitor tick and, when it ends the loop, close(done).  Converged needs
\* mean > 0, that is an I/O counted by some tick; beyond that the samples
\* decide, which this unit leaves open.  Timeout is the test of the code.
JoinTick ==
    /\ joinPc = "monitor"
    /\ joinElapsed' = IF joinElapsed < MaxJoinRuntime THEN joinElapsed + 1 ELSE joinElapsed
    /\ \E converged \in (IF opsCounter > 0 THEN BOOLEAN ELSE {FALSE}) :
          IF converged \/ TimesOut(joinElapsed', joinParams)
          THEN doneClosed' = TRUE /\ joinPc' = "wait"
          ELSE UNCHANGED <<doneClosed, joinPc>>
    /\ UNCHANGED <<joinParams, joinTokens, goPc, goRes, opsCounter, results,
                   resultsClosed, sends, wg, merged, firstErr, panicked>>
    /\ UNCHANGED <<engineVars, sustainVars, evalVars, optVars>>
    /\ UNCHANGED <<monVars, partVars, histVars, offVars, kneeVars, slotVars>>

\* wg.Wait() returns once the counter is 0; then close(results).
JoinWait ==
    /\ joinPc = "wait"
    /\ wg = 0
    /\ resultsClosed' = TRUE
    /\ joinPc' = "aggregate"
    /\ UNCHANGED <<joinParams, joinElapsed, doneClosed, joinTokens, goPc, goRes,
                   opsCounter, results, sends, wg, merged, firstErr, panicked>>
    /\ UNCHANGED <<engineVars, sustainVars, evalVars, optVars>>
    /\ UNCHANGED <<monVars, partVars, histVars, offVars, kneeVars, slotVars>>

\* aggregate: one iteration of for res := range results.
JoinReceive ==
    /\ joinPc = "aggregate"
    /\ results # <<>>
    /\ results' = Tail(results)
    /\ IF goRes[Head(results)] = "err"
       THEN firstErr' = TRUE /\ UNCHANGED merged
       ELSE merged' = merged \cup {Head(results)} /\ UNCHANGED firstErr
    /\ UNCHANGED <<joinParams, joinPc, joinElapsed, doneClosed, joinTokens, goPc, goRes,
                   opsCounter, resultsClosed, sends, wg, panicked>>
    /\ UNCHANGED <<engineVars, sustainVars, evalVars, optVars>>
    /\ UNCHANGED <<monVars, partVars, histVars, offVars, kneeVars, slotVars>>

\* The range loop ends when the channel is closed and drained; Run returns
\* the first worker error, or the result.
JoinReturn ==
    /\ joinPc = "aggregate"
    /\ results = <<>>
    /\ resultsClosed
    /\ joinPc' = IF firstErr THEN "error" ELSE "returned"
    /\ UNCHANGED <<joinParams, joinElapsed, doneClosed, joinTokens, goPc, goRes,
                   opsCounter, results, resultsClosed, sends, wg, merged, firstErr, panicked>>
    /\ UNCHANGED <<engineVars, sustainVars, evalVars, optVars>>
    /\ UNCHANGED <<monVars, partVars, histVars, offVars, kneeVars, slotVars>>

\* The worker up to its loop: opening the file, the buffers, the aio
\* context; each can fail and return workerResult{err: err}.
GoSetup(w) ==
    /\ goPc[w] = "setup"
    /\ \E ok \in BOOLEAN :
          IF ok
          THEN /\ goPc' = [goPc EXCEPT ![w] =
                              IF joinParams.EngineType = "sync" THEN "select" ELSE "fill"]
               /\ UNCHANGED goRes
          ELSE /\ goPc' = [goPc EXCEPT ![w] = "returned"]
               /\ goRes' = [goRes EXCEPT ![w] = "err"]
    /\ UNCHANGED <<joinParams, joinPc, joinElapsed, doneClosed, joinTokens, opsCounter,
                   results, resultsClosed, sends, wg, merged, firstErr, panicked>>
    /\ UNCHANGED <<engineVars, sustainVars, evalVars, optVars>>
    /\ UNCHANGED <<monVars, partVars, histVars, offVars, kneeVars, slotVars>>

\* select { case <-done: return workerResult{ioCount, hist} ... }
GoObserveDone(w) ==
    /\ goPc[w] = "select"
    /\ doneClosed
    /\ goPc' = [goPc EXCEPT ![w] = "returned"]
    /\ goRes' = [goRes EXCEPT ![w] = "ok"]
    /\ UNCHANGED <<joinParams, joinPc, joinElapsed, doneClosed, joinTokens, opsCounter,
                   results, resultsClosed, sends, wg, merged, firstErr, panicked>>
    /\ UNCHANGED <<engineVars, sustainVars, evalVars, optVars>>
    /\ UNCHANGED <<monVars, partVars, histVars, offVars, kneeVars, slotVars>>

\* select { ... case <-tokens: }
GoAcquire(w) ==
    /\ goPc[w] = "select"
    /\ joinTokens > 0
    /\ joinTokens' = joinTokens - 1
    /\ goPc' = [goPc EXCEPT ![w] = "io"]
    /\ UNCHANGED <<joinParams, joinPc, joinElapsed, doneClosed, goRes, opsCounter,
                   results, resultsClosed, sends, wg, merged, firstErr, panicked>>
    /\ UNCHANGED <<engineVars, sustainVars, evalVars, optVars>>
    /\ UNCHANGED <<monVars, partVars, histVars, offVars, kneeVars, slotVars>>

\* The I/O returns: the token goes back, the latency is recorded, an error
\* other than EOF ends the worker, n > 0 counts the I/O.
GoIO(w) ==
    /\ goPc[w] = "io"
    /\ joinTokens' = joinTokens + 1
    /\ \E outcome \in {"n", "eof", "err"} :
          /\ goPc' = [goPc EXCEPT ![w] = IF outcome = "err" THEN "returned" ELSE "select"]
          /\ goRes' = [goRes EXCEPT ![w] = IF outcome = "err" THEN "err" ELSE @]
          /\ opsCounter' = IF outcome = "n" /\ opsCounter < MaxOpsSeen
                           THEN opsCounter + 1 ELSE opsCounter
    /\ UNCHANGED <<joinParams, joinPc, joinElapsed, doneClosed,
                   results, resultsClosed, sends, wg, merged, firstErr, panicked>>
    /\ UNCHANGED <<engineVars, sustainVars, evalVars, optVars>>
    /\ UNCHANGED <<monVars, partVars, histVars, offVars, kneeVars, slotVars>>

\* The aio worker fills its free slots and calls io_submit, which can fail.
GoSubmit(w) ==
    /\ goPc[w] = "fill"
    /\ \E ok \in BOOLEAN :
          /\ goPc' = [goPc EXCEPT ![w] = IF ok THEN "reap" ELSE "returned"]
          /\ goRes' = [goRes EXCEPT ![w] = IF ok THEN @ ELSE "err"]
    /\ UNCHANGED <<joinParams, joinPc, joinElapsed, doneClosed, joinTokens, opsCounter,
                   results, resultsClosed, sends, wg, merged, firstErr, panicked>>
    /\ UNCHANGED <<engineVars, sustainVars, evalVars, optVars>>
    /\ UNCHANGED <<monVars, partVars, histVars, offVars, kneeVars, slotVars>>

\* io_getevents returns: it or an event can carry an error; completed
\* events are counted.
GoReap(w) ==
    /\ goPc[w] = "reap"
    /\ \E outcome \in {"events", "none", "err"} :
          /\ goPc' = [goPc EXCEPT ![w] = IF outcome = "err" THEN "returned" ELSE "check"]
          /\ goRes' = [goRes EXCEPT ![w] = IF outcome = "err" THEN "err" ELSE @]
          /\ opsCounter' = IF outcome = "events" /\ opsCounter < MaxOpsSeen
                           THEN opsCounter + 1 ELSE opsCounter
    /\ UNCHANGED <<joinParams, joinPc, joinElapsed, doneClosed, joinTokens,
                   results, resultsClosed, sends, wg, merged, firstErr, panicked>>
    /\ UNCHANGED <<engineVars, sustainVars, evalVars, optVars>>
    /\ UNCHANGED <<monVars, partVars, histVars, offVars, kneeVars, slotVars>>

\* select { case <-done: return workerResult{ioCount, hist}; default: }
GoCheckDone(w) ==
    /\ goPc[w] = "check"
    /\ goPc' = [goPc EXCEPT ![w] = IF doneClosed THEN "returned" ELSE "fill"]
    /\ goRes' = [goRes EXCEPT ![w] = IF doneClosed THEN "ok" ELSE @]
    /\ UNCHANGED <<joinParams, joinPc, joinElapsed, doneClosed, joinTokens, opsCounter,
                   results, resultsClosed, sends, wg, merged, firstErr, panicked>>
    /\ UNCHANGED <<engineVars, sustainVars, evalVars, optVars>>
    /\ UNCHANGED <<monVars, partVars, histVars, offVars, kneeVars, slotVars>>

\* results <- e.runWorker(...): a send on a closed channel panics, a send on
\* a full one waits.
GoSend(w) ==
    /\ goPc[w] = "returned"
    /\ IF resultsClosed
       THEN panicked' = TRUE /\ UNCHANGED <<results, sends>>
       ELSE /\ Len(results) < ResultsCapacity(joinParams)
            /\ results' = Append(results, w)
            /\ sends' = [sends EXCEPT ![w] = @ + 1]
            /\ UNCHANGED panicked
    /\ goPc' = [goPc EXCEPT ![w] = "sent"]
    /\ UNCHANGED <<joinParams, joinPc, joinElapsed, doneClosed, joinTokens, goRes,
                   opsCounter, resultsClosed, wg, merged, firstErr>>
    /\ UNCHANGED <<engineVars, sustainVars, evalVars, optVars>>
    /\ UNCHANGED <<monVars, partVars, histVars, offVars, kneeVars, slotVars>>

\* defer wg.Done()
GoDone(w) ==
    /\ goPc[w] = "sent"
    /\ wg' = wg - 1
    /\ goPc' = [goPc EXCEPT ![w] = "exited"]
    /\ UNCHANGED <<joinParams, joinPc, joinElapsed, doneClosed, joinTokens, goRes,
                   opsCounter, results, resultsClosed, sends, merged, firstErr, panicked>>
    /\ UNCHANGED <<engineVars, sustainVars, evalVars, optVars>>
    /\ UNCHANGED <<monVars, partVars, histVars, offVars, kneeVars, slotVars>>

\* The steps of goroutine w other than observing done in the select.
GoStep(w) ==
    \/ GoSetup(w)
    \/ GoAcquire(w)
    \/ GoIO(w)
    \/ GoSubmit(w)
    \/ GoReap(w)
    \/ GoCheckDone(w)
    \/ GoSend(w)
    \/ GoDone(w)

\* The steps of Run itself.
JoinMain == JoinRun \/ JoinTick \/ JoinWait \/ JoinReceive \/ JoinReturn

JoinNext ==
    \/ JoinMain
    \/ \E w \in JoinWorkerIds : GoStep(w)
    \/ \E w \in JoinWorkerIds : GoObserveDone(w)

JoinParked ==
    /\ joinParams = [EngineType |-> "sync", Workers |-> 1, QueueDepth |-> 0, MaxRuntime |-> 0]
    /\ joinPc = "returned"
    /\ joinElapsed = 0
    /\ doneClosed = FALSE
    /\ joinTokens = 0
    /\ goPc = [w \in JoinWorkerIds |-> "idle"]
    /\ goRes = [w \in JoinWorkerIds |-> "none"]
    /\ opsCounter = 0
    /\ results = <<>>
    /\ resultsClosed = FALSE
    /\ sends = [w \in JoinWorkerIds |-> 0]
    /\ wg = 0
    /\ merged = {}
    /\ firstErr = FALSE
    /\ panicked = FALSE

\* ---------------------------------------------------------------------
\* The slot accounting of one ring or aio worker (runUringWorker,
\* runAIOWorker): the free-slot stack, inFlight and the kernel's view.
\* ---------------------------------------------------------------------

SlotParams == [Driver : {"uring", "libaio"}, QD : 1 .. MaxSlotQD]

\* The stack of free slots: freeSlots[0 .. nextFreeIdx-1] (kept here 1-based).
FreeStack(arr, idx) == {arr[i] : i \in 1 .. idx}

\* nextFreeIdx after a failed QueueSQE: the slot is put back,
\* freeSlots[nextFreeIdx] = slotIdx; nextFreeIdx++.
AfterQueueFailed_Dropped(idx) == idx

AfterQueueFailed(idx) == idx + 1

\* for i := 0; i < qd; i++ { freeSlots[i] = i }; nextFreeIdx := qd; inFlight := 0
SlotInit ==
    /\ slotParams \in SlotParams
    /\ slotPc = "top"
    /\ slotFreeSlots = [i \in 1 .. slotParams.QD |-> i - 1]
    /\ slotNextFreeIdx = slotParams.QD
    /\ slotInFlight = 0
    /\ slotPending = {}
    /\ slotReused = FALSE

\* The fill loop, for inFlight < qd && nextFreeIdx > 0: the slots come off the
\* top of the stack, k of them until the loop ends.  In the ring worker
\* QueueSQE can fail; the slot just taken is then put back and the loop is
\* left.  The aio worker then calls io_submit, whose failure (or short
\* count) ends the worker.
SlotFill ==
    /\ slotPc = "top"
    /\ \E most \in {IF slotParams.QD - slotInFlight < slotNextFreeIdx
                    THEN slotParams.QD - slotInFlight ELSE slotNextFreeIdx} :
       \E k \in (IF slotParams.Driver = "uring" THEN 0 .. most ELSE {most}) :
       \E taken \in {{slotFreeSlots[i] : i \in (slotNextFreeIdx - k + 1) .. slotNextFreeIdx}} :
          /\ slotNextFreeIdx' = IF k < most
                                THEN AfterQueueFailed(slotNextFreeIdx - k - 1)
                                ELSE slotNextFreeIdx - k
          /\ slotInFlight' = slotInFlight + k
          /\ slotPending' = slotPending \cup taken
          /\ slotReused' = (slotReused \/ taken \cap slotPending # {} \/ Cardinality(taken) # k)
          /\ \E submitted \in (IF slotParams.Driver = "libaio" /\ k > 0
                               THEN BOOLEAN ELSE {TRUE}) :
                slotPc' = IF submitted THEN "wait" ELSE "error"
    /\ UNCHANGED <<slotParams, slotFreeSlots>>
    /\ UNCHANGED <<engineVars, sustainVars, evalVars, optVars>>
    /\ UNCHANGED <<monVars, partVars, histVars, offVars, kneeVars, joinVars>>

\* SubmitAndWaitCQEvents(1), resp. io_getevents, fails.
SlotWaitFails ==
    /\ slotPc = "wait"
    /\ slotPc' = "error"
    /\ UNCHANGED <<slotParams, slotFreeSlots, slotNextFreeIdx, slotInFlight,
                   slotPending, slotReused>>
    /\ UNCHANGED <<engineVars, sustainVars, evalVars, optVars>>
    /\ UNCHANGED <<monVars, partVars, histVars, offVars, kneeVars, joinVars>>

\* One completion is reaped: a negative result ends the worker; otherwise
\* inFlight--, freeSlots[nextFreeIdx] = slotIdx, nextFreeIdx++.  The kernel
\* completes only what it was handed.
SlotReap ==
    /\ slotPc \in {"wait", "reap"}
    /\ \E slotIdx \in slotPending, failed \in BOOLEAN :
          IF failed
          THEN /\ slotPc' = "error"
               /\ UNCHANGED <<slotFreeSlots, slotNextFreeIdx, slotInFlight, slotPending>>
          ELSE /\ slotPc' = "reap"
               /\ slotInFlight' = slotInFlight - 1
               /\ slotFreeSlots' = [slotFreeSlots EXCEPT ![slotNextFreeIdx + 1] = slotIdx]
               /\ slotNextFreeIdx' = slotNextFreeIdx + 1
               /\ slotPending' = slotPending \ {slotIdx}
    /\ UNCHANGED <<slotParams, slotReused>>
    /\ UNCHANGED <<engineVars, sustainVars, evalVars, optVars>>
    /\ UNCHANGED <<monVars, partVars, histVars, offVars, kneeVars, joinVars>>

\* The completions are through (the ring worker has seen at least one; the
\* aio worker asks for at least one only when inFlight == qd): the
\* non-blocking look at done, then the top of the loop again.
SlotCheckDone ==
    /\ \/ slotPc = "reap"
       \/ slotPc = "wait" /\ slotParams.Driver = "libaio" /\ slotInFlight < slotParams.QD
    /\ \E closed \in BOOLEAN : slotPc' = IF closed THEN "returned" ELSE "top"
    /\ UNCHANGED <<slotParams, slotFreeSlots, slotNextFreeIdx, slotInFlight,
                   slotPending, slotReused>>
    /\ UNCHANGED <<engineVars, sustainVars, evalVars, optVars>>
    /\ UNCHANGED <<monVars, partVars, histVars, offVars, kneeVars, joinVars>>

SlotNext == SlotFill \/ SlotWaitFails \/ SlotReap \/ SlotCheckDone

SlotParked ==
    /\ slotParams = [Driver |-> "uring", QD |-> 1]
    /\ slotPc = "returned"
    /\ slotFreeSlots = <<0>>
    /\ slotNextFreeIdx = 1
    /\ slotInFlight = 0
    /\ slotPending = {}
    /\ slotReused = FALSE

\* Each subsystem at rest while another is examined.
UnitsParked == MonitorParked /\ PartParked /\ HistParked /\ OffsetParked /\ KneeParked /\ JoinParked /\ SlotParked

EngineParked ==
    /\ EngineInit
    /\ params = [EngineType |-> "sync", BlockSize |-> 1, Workers |-> 1,
                 QueueDepth |-> 1, Trace |-> TRUE]

SustainParked ==
    /\ expectedWorkers = 1
    /\ AnalyzerNew

EvalParked ==
    /\ cfg = <<Objective("maximize", "iops", "")>>
    /\ EvaluatorNew

OptParked ==
    /\ optKind = "coordinate"
    /\ search = <<Variable("workers", <<>>, <<1, 8>>, 0)>>
    /\ settings = [InitialTemp |-> <<2, 1>>, CoolingRate |-> <<1, 2>>, MinTemp |-> <<1, 2>>,
                   StepsPerTemp |-> 1, RestartInterval |-> 0]
    /\ engKind = "capped"
    /\ optPc = "start"
    /\ co = CoFrame
    /\ ao = AoFrame
    /\ ret = Nil
    /\ passed = <<>>

Init == EngineInit /\ SustainParked /\ EvalParked /\ OptParked /\ UnitsParked

Next == EngineNext

Spec == Init /\ [][Next]_vars

InitSustain == SustainInit /\ EngineParked /\ EvalParked /\ OptParked /\ UnitsParked

SpecSustain == InitSustain /\ [][SustainNext]_vars

InitLoop == LoopInit /\ EngineParked /\ EvalParked /\ OptParked /\ UnitsParked

SpecLoop == InitLoop /\ [][LoopNext]_vars

InitEval == EvalInit /\ EngineParked /\ SustainParked /\ OptParked /\ UnitsParked

SpecEval == InitEval /\ [][EvalNext]_vars

InitScore == ScoreInit /\ EngineParked /\ SustainParked /\ OptParked /\ UnitsParked

SpecScore == InitScore /\ [][EvalNext]_vars

InitOpt == OptInit /\ EvalInit /\ EngineParked /\ SustainParked /\ UnitsParked

SpecOpt == InitOpt /\ [][OptNext]_vars

Parked == EngineParked /\ SustainParked /\ EvalParked /\ OptParked

InitMonitor == MonitorInit /\ Parked /\ PartParked /\ HistParked /\ OffsetParked /\ KneeParked /\ JoinParked /\ SlotParked

SpecMonitor == InitMonitor /\ [][MonitorNext]_vars

InitPart == PartInit /\ Parked /\ MonitorParked /\ HistParked /\ OffsetParked /\ KneeParked /\ JoinParked /\ SlotParked

SpecPart == InitPart /\ [][PartNext]_vars

InitHist == HistInit /\ Parked /\ MonitorParked /\ PartParked /\ OffsetParked /\ KneeParked /\ JoinParked /\ SlotParked

SpecHist == InitHist /\ [][HistNext]_vars

InitOffset == OffsetInit /\ Parked /\ MonitorParked /\ PartParked /\ HistParked /\ KneeParked /\ JoinParked /\ SlotParked

SpecOffset == InitOffset /\ [][OffsetNext]_vars

InitKnee == KneeInit /\ Parked /\ MonitorParked /\ PartParked /\ HistParked /\ OffsetParked /\ JoinParked /\ SlotParked

SpecKnee == InitKnee /\ [][KneeNext]_vars

InitJoin == JoinInit /\ Parked /\ MonitorParked /\ PartParked /\ HistParked /\ OffsetParked /\ KneeParked /\ SlotParked

SpecJoin == InitJoin /\ [][JoinNext]_vars

\* The scheduler runs every goroutine that can take a step, the ticker keeps
\* ticking and the calls of a worker return; a select with several ready
\* cases picks one of them at random, so a worker that finds done closed each
\* time it comes to its select takes that case in the end.
SpecJoinFair ==
    /\ InitJoin
    /\ [][JoinNext]_vars
    /\ WF_vars(JoinMain)
    /\ \A w \in JoinWorkerIds : WF_vars(GoStep(w)) /\ SF_vars(GoObserveDone(w))

InitSlots == SlotInit /\ Parked /\ MonitorParked /\ PartParked /\ HistParked /\ OffsetParked /\ KneeParked /\ JoinParked

SpecSlots == InitSlots /\ [][SlotNext]_vars

\* Optimize is a sequential program: it takes its next step whenever it has one.
SpecOptFair == InitOpt /\ [][OptNext]_vars /\ WF_vars(OptNext)

\* ================================================================ claims
\* The queue depth a run is entitled to, as the data model states it:
\* Params.QueueDepth, or the worker count when QueueDepth <= 0.
ClaimQD == IF params.QueueDepth <= 0 THEN params.Workers ELSE params.QueueDepth

\* The sync workers that hold a token: between the receive and the send back.
TokenHolders == {w \in WorkerIds : pc[w] \in {"io", "release"}}

C2_TokenConservation ==
    (params.EngineType = "sync" /\ runPc \in {"monitor", "wait", "returned"}) =>
        /\ tokens + Cardinality(TokenHolders) = ClaimQD
        /\ \A w \in WorkerIds : pc[w] = "release" => tokens < ClaimQD

\* C2 witness: a worker whose I/O failed has returned with the error, and all
\* the tokens are back in the channel.
C2_Witness ==
    /\ params.EngineType = "sync"
    /\ \E w \in WorkerIds : pc[w] = "exit" /\ workerErr[w] /\ issued[w] > 0
    /\ TokenHolders = {}
    /\ tokens = ClaimQD

\* C3: frontier promise: whenever a worker has sent a TraceMsg with MinStart = s,
\* every span it reports in a later TraceMsg has Start >= s.
C3_FrontierPromise ==
    \A w \in WorkerIds :
        \A i \in DOMAIN sent[w], j \in DOMAIN sent[w] :
            i < j =>
                \A k \in DOMAIN sent[w][j].Spans :
                    sent[w][j].Spans[k].Start >= sent[w][i].MinStart

\* The frontier promise restricted to the sync engine (it holds there).
C3_SyncFrontierPromise == params.EngineType = "sync" => C3_FrontierPromise

\* ---- sustain analyzer
\* Every expected worker id has reported at least one TraceMsg.
EveryoneReported == \A w \in 0 .. (expectedWorkers - 1) : w \in DOMAIN workerMinStarts

\* The minimum over the workers of their latest reported MinStart.
ClaimHorizon == Min({workerMinStarts[w] : w \in DOMAIN workerMinStarts})

\* The events popped by the latest processMsg.
LastPopped == {popLog[i] : i \in (Len(popLog) - lastPops + 1) .. Len(popLog)}

\* C4: while the trace channel is open, nothing is popped before every expected
\* worker has reported; after that a processMsg pops exactly the queued events
\* whose time is <= the minimum of the workers' latest MinStart, and the later
\* ones stay in the queue.
C4_SafeHorizon ==
    anPc = "running" =>
        /\ Len(eventPQ) + Len(popLog) = 2 * BagCardinality(allSpans)
        /\ ~EveryoneReported => popLog = <<>>
        /\ EveryoneReported =>
             /\ \A e \in LastPopped : e.Time <= ClaimHorizon
             /\ \A k \in DOMAIN eventPQ : eventPQ[k].Time > ClaimHorizon

\* C4 witness: with two expected workers, both have reported, some events were
\* committed and some, later than the horizon, are still queued.
C4_Witness ==
    /\ anPc = "running"
    /\ expectedWorkers = 2
    /\ EveryoneReported
    /\ lastPops > 0
    /\ Len(eventPQ) > 0
    /\ ClaimHorizon < MaxInt64

\* The claimed processing order of events: by time, Ends before Starts.
ClaimBefore(a, b) ==
    \/ a.Time < b.Time
    \/ a.Time = b.Time /\ a.Type = EventEnd /\ b.Type = EventStart

RECURSIVE SortEvents(_)
SortEvents(B) ==
    IF B = EmptyBag THEN <<>>
    ELSE LET e == CHOOSE x \in BagToSet(B) : \A y \in BagToSet(B) : ~ClaimBefore(y, x)
         IN <<e>> \o SortEvents(B (-) SetToBag({e}))

RECURSIVE EventBag(_)
EventBag(B) ==
    IF B = EmptyBag THEN EmptyBag
    ELSE LET sp == CHOOSE x \in BagToSet(B) : TRUE
             r == Rate(sp.End - sp.Start)
         IN SetToBag({Event(sp.Start, EventStart, r)})
            (+) SetToBag({Event(sp.End, EventEnd, r)})
            (+) EventBag(B (-) SetToBag({sp}))

RECURSIVE ApplyAll(_, _)
ApplyAll(st, evs) ==
    IF evs = <<>> THEN st ELSE ApplyAll(ApplyEvent(st, Head(evs)), Tail(evs))

\* The histogram a fresh analyzer integrates from all the spans received, their
\* events taken in globally sorted order.
SortedHistogram ==
    ApplyAll(AnState(<<>>, 0, 0, EmptyMap, <<>>), SortEvents(EventBag(allSpans))).hist

\* C5: with workers that keep their frontier promise, events are committed in
\* non-decreasing time order whatever the order of delivery, and after Run the
\* histogram equals the one obtained from all events in globally sorted order.
C5_OutOfOrderSafe ==
    /\ \A i \in 1 .. (Len(popLog) - 1) : popLog[i].Time <= popLog[i + 1].Time
    /\ anPc = "done" => histogram = SortedHistogram

\* C5 witness: Run has returned after a delivery out of time order, part of the
\* events having been committed before the flush.
C5_Witness ==
    /\ anPc = "done"
    /\ reordered
    /\ expectedWorkers = 2
    /\ lastPops < Len(popLog)
    /\ lastPops > 0

RECURSIVE TotalDuration(_)
TotalDuration(hist) ==
    IF DOMAIN hist = {} THEN 0
    ELSE LET b == CHOOSE x \in DOMAIN hist : TRUE
         IN hist[b] + TotalDuration([x \in DOMAIN hist \ {b} |-> hist[x]])

\* C6: lastTime starts at the first processed event's timestamp, so the first
\* event credits no bin: after Run the durations of all bins add up to the time
\* of the last processed event minus the time of the first.
C6_LastTimeFromFirstEvent ==
    (anPc = "done" /\ popLog # <<>>) =>
        TotalDuration(histogram) = popLog[Len(popLog)].Time - popLog[1].Time

\* C7: GetProfile's points have Y non-increasing and X strictly increasing, and
\* every bin of the histogram holds a strictly positive duration.
C7_ProfileMonotone ==
    /\ \A b \in DOMAIN histogram : histogram[b] > 0
    /\ \A i \in 1 .. (Len(GetProfile(histogram)) - 1) :
          /\ GetProfile(histogram)[i].Y >= GetProfile(histogram)[i + 1].Y
          /\ GetProfile(histogram)[i].X < GetProfile(histogram)[i + 1].X

\* C7 witness: a profile of at least three points.
C7_Witness == Len(GetProfile(histogram)) >= 3

\* No two of the spans received overlap: they are apart or abut exactly.
NoOverlap ==
    /\ \A sp \in BagToSet(allSpans) : allSpans[sp] = 1
    /\ \A a \in BagToSet(allSpans), b \in BagToSet(allSpans) :
          a # b => (a.End <= b.Start \/ b.End <= a.Start)

\* C8: of an End and a Start with the same timestamp the End is popped first,
\* and spans that only abut never produce a bin at the sum of two rates: every
\* bin is 0 or the rounded rate of one span.
C8_EndsBeforeStarts ==
    /\ \A i \in DOMAIN popLog, j \in DOMAIN popLog :
          (i < j /\ popLog[i].Time = popLog[j].Time) =>
              ~(popLog[i].Type = EventStart /\ popLog[j].Type = EventEnd)
    /\ NoOverlap =>
          \A b \in DOMAIN histogram :
              b = 0 \/ \E sp \in BagToSet(allSpans) : b = Round(Rate(sp.End - sp.Start))

\* C8 witness: two abutting spans were processed, the End of the first popped
\* right before the Start of the second at the same timestamp.
C8_Witness ==
    /\ NoOverlap
    /\ \E i \in 1 .. (Len(popLog) - 1) :
          /\ popLog[i].Time = popLog[i + 1].Time
          /\ popLog[i].Type = EventEnd
          /\ popLog[i + 1].Type = EventStart

\* ---- evaluator
\* C9: the cache key is injective on states: two different states that were
\* evaluated never have the same key, so their results never share a cache entry.
C9_KeyInjective ==
    \A s \in DOMAIN runs, t \in DOMAIN runs : s # t => hashState(s) # hashState(t)

\* C10: every Evaluate call runs the engine exactly once, and after n successful
\* calls on a state its cache entry holds the sum of the n runs' TotalIOs, the
\* sum of their durations, and IOPS = TotalIOs / Duration.
C10_CacheSums ==
    /\ engCalls = evalCalls
    /\ \A s \in DOMAIN runs :
          /\ hashState(s) \in DOMAIN Cache
          /\ Cache[hashState(s)].TotalIOs = runs[s].ios
          /\ Cache[hashState(s)].Duration = runs[s].dur
          /\ Cache[hashState(s)].IOPS = Rat(runs[s].ios * NanosPerSecond, runs[s].dur)

\* The count-weighted average of two latencies, as a whole number of nanoseconds.
WeightedAverage(a, wa, b, wb) == (a * wa + b * wb) \div (wa + wb)

\* C11: when Evaluate merges a new result into a cached one, P50, P95 and P99
\* of the merged result are each the TotalIOs-weighted average of the cached and
\* the new value, and MetricConfidence is the average of the two.
C11_MergedPercentiles ==
    [][(/\ Len(History') = Len(History) + 1
        /\ hashState(LastEntry'.State) \in DOMAIN Cache)
       => \E r \in EngineResults :
            LET old == Cache[hashState(LastEntry'.State)]
                new == LastEntry'.Result
            IN /\ new.TotalIOs = old.TotalIOs + r.TotalIOs
               /\ new.Duration = old.Duration + r.Duration
               /\ new.P50Latency =
                    WeightedAverage(old.P50Latency, old.TotalIOs, r.P50Latency, r.TotalIOs)
               /\ new.P95Latency =
                    WeightedAverage(old.P95Latency, old.TotalIOs, r.P95Latency, r.TotalIOs)
               /\ new.P99Latency =
                    WeightedAverage(old.P99Latency, old.TotalIOs, r.P99Latency, r.TotalIOs)
               /\ new.MetricConfidence =
                    RatDivTimes(RatAdd(old.MetricConfidence, r.MetricConfidence), <<2, 1>>, 1)]_vars

\* A constraint objective of cfg whose limit the result's latency exceeds.
ExceedsConstraint(res) ==
    \E j \in DOMAIN cfg :
        /\ cfg[j].Type = "constraint"
        /\ \/ cfg[j].Metric = "p50_latency" /\ res.P50Latency > parseLimit(cfg[j].Limit)
           \/ cfg[j].Metric = "p95_latency" /\ res.P95Latency > parseLimit(cfg[j].Limit)
           \/ cfg[j].Metric = "p99_latency" /\ res.P99Latency > parseLimit(cfg[j].Limit)

\* C12: a constraint failure is scored, not raised: every evaluation whose
\* result exceeds the limit of a constraint objective returned without error
\* (its HistoryEntry exists) with score exactly -1000 and a reason that starts
\* with "Constraint Failed", whatever the baseline is.
C12_ConstraintScored ==
    \A i \in DOMAIN History :
        ExceedsConstraint(History[i].Result) =>
              /\ History[i].Score = <<-1000, 1>>
              /\ History[i].Reason # <<>>
              /\ History[i].Reason[1] = "Constraint Failed"

\* C12 witness: a constraint failure recorded after a baseline was set.
C12_Witness ==
    /\ Len(History) >= 2
    /\ History[1].Reason = <<>>
    /\ initialScore # RatZero
    /\ ExceedsConstraint(LastEntry.Result)
    /\ LastEntry.Score = <<-1000, 1>>

\* C13: the score baseline is fixed once: after the first Evaluate that passes
\* all constraints has set initialScore, no later Evaluate changes it.
C13_BaselineFixedOnce ==
    [][initialScore # RatZero => initialScore' = initialScore]_vars

\* ---- optimizers
\* The state the i-th HistoryEntry shows when read now: its own copy, or the
\* caller's map (current at the first call, tempState later) if the entry only
\* refers to it.
Resolve(x, i) ==
    IF DOMAIN x = {"ref"} THEN (IF i = 1 THEN co.current ELSE co.tempState) ELSE x

ResolvedHistory == [i \in DOMAIN History |-> [History[i] EXCEPT !.State = Resolve(@, i)]]

\* C14: History is append-only with snapshot copies: a successful Evaluate
\* appends exactly one entry whose State is the state passed, every other step
\* appends none, and no step changes what an earlier entry shows, also when the
\* optimizer changes its state maps afterwards.
C14_HistoryAppendOnly ==
    [][IF Len(passed') = Len(passed) + 1 /\ optPc' # "failed"
       THEN /\ Len(ResolvedHistory') = Len(ResolvedHistory) + 1
            /\ SubSeq(ResolvedHistory', 1, Len(ResolvedHistory)) = ResolvedHistory
            /\ ResolvedHistory'[Len(ResolvedHistory')].State = passed'[Len(passed')]
       ELSE ResolvedHistory' = ResolvedHistory]_vars

\* C14 witness: the coordinate optimizer has changed both of its state maps
\* since the first evaluation recorded them.
C14_Witness ==
    /\ optKind = "coordinate"
    /\ Len(History) >= 3
    /\ History[1].State # co.current
    /\ History[2].State # co.tempState
    /\ History[1].State = passed[1]

\* C15: an engine error is never skipped: once an eng.Run has failed, Optimize
\* has returned the error with no best state, and that failed call is the last
\* evaluation made.
C15_EngineErrorStops ==
    /\ engCalls > Len(History) =>
          /\ optPc = "failed"
          /\ ret = Nil
          /\ engCalls = Len(History) + 1
          /\ Len(passed) = engCalls
    /\ optPc = "failed" => engCalls > Len(History)

\* C15 witness: the annealing optimizer stopped on an engine error in the
\* middle of its run.
C15_Witness ==
    /\ optKind = "annealing"
    /\ optPc = "failed"
    /\ Len(History) >= 2
    /\ ret = Nil

\* C16: in the coordinate optimizer bestScore never decreases once the first
\* evaluation has set it, whatever the engine returns.
C16_BestScoreMonotone ==
    [][(optKind = "coordinate" /\ optPc # "start") => RatLE(co.bestScore, co'.bestScore)]_vars

\* C16 witness: with an engine whose results vary, Optimize returned after at
\* least one improving pass.
C16_Witness ==
    /\ optKind = "coordinate"
    /\ engKind = "any"
    /\ optPc = "returned"
    /\ ~RatLE(co.bestScore, History[1].Score)

\* C17: in the coordinate optimizer a value is replaced only by a candidate
\* whose score is strictly greater than the best score so far: in the list
\* search, in the range search and in the outer loop.
C17_StrictTieBreak ==
    [][optKind = "coordinate" =>
          /\ (optPc \in {"list", "rangeUp", "rangeDown"}
                /\ co'.localBestVal # co.localBestVal)
             => ~RatLE(LastEntry'.Score, co.localBestScore)
          /\ (optPc = "varEnd" /\ co'.current # co.current)
             => ~RatLE(co.localBestScore, co.bestScore)]_vars

\* The scenario of C18: workers in [1, 8], maximize iops, the capped engine.
C18Scenario ==
    /\ optKind = "coordinate"
    /\ engKind = "capped"
    /\ search = <<Variable("workers", <<>>, <<1, 8>>, 0)>>
    /\ cfg = <<Objective("maximize", "iops", "")>>

\* C18: with IOPS = min(workers * 1000, 4000), workers in [1, 8] and maximize
\* iops, the coordinate optimizer terminates, and returns workers in 4..8 with
\* a result of 4000 IOPS.
C18_CappedSearch ==
    /\ C18Scenario ~> (optPc = "returned")
    /\ []((C18Scenario /\ optPc = "returned") =>
             /\ ret["workers"] \in 4 .. 8
             /\ co.bestRes.IOPS = <<4000, 1>>)

\* C18 witness: that search has returned.
C18_Witness ==
    /\ C18Scenario
    /\ optPc = "returned"
    /\ Len(History) >= 4

\* The best-ever bookkeeping of the annealing optimizer: bestScore >=
\* currentScore, bestScore is the maximum score over all evaluations so far,
\* best is a state that achieved it, and the returned state is best.
C19BestEver ==
    (optKind = "annealing" /\ optPc \in {"loop", "returned"}) =>
        /\ RatLE(ao.currentScore, ao.bestScore)
        /\ \A i \in DOMAIN History : RatLE(History[i].Score, ao.bestScore)
        /\ \E i \in DOMAIN History :
              /\ History[i].Score = ao.bestScore
              /\ History[i].State = ao.best
              /\ History[i].Result = ao.bestRes
        /\ optPc = "returned" => ret = ao.best

\* C19: the annealing optimizer tracks the best-ever state: at every step
\* bestScore >= currentScore, bestScore is the maximum score over all states
\* evaluated so far and best is the state that achieved it, the returned state
\* is best, and a restart sets current to exactly best, its score and result.
C19_BestEverTracked ==
    [][/\ C19BestEver'
       /\ (/\ optKind = "annealing"
           /\ Len(History') = Len(History) + 1
           /\ settings.RestartInterval > 0
           /\ ao.stepsSinceImprovement + 1 >= settings.RestartInterval
           /\ optPc = "loop"
           /\ ao'.bestScore = ao.bestScore)
          => /\ ao'.current = ao'.best
             /\ ao'.currentScore = ao'.bestScore
             /\ ao'.currentRes = ao'.bestRes]_vars

\* C19 witness: the annealing optimizer returned a best state that it had
\* moved away from.
C19_Witness ==
    /\ optKind = "annealing"
    /\ optPc = "returned"
    /\ engKind = "any"
    /\ ao.current # ao.best
    /\ ~RatLE(ao.bestScore, ao.currentScore)
    /\ Len(History) >= 3

\* A state with every search variable inside its range or among its values.
InSearchSpace(st) ==
    \A k \in DOMAIN search :
        /\ search[k].Name \in DOMAIN st
        /\ IF Len(search[k].Values) > 0
           THEN \E j \in DOMAIN search[k].Values : st[search[k].Name] = search[k].Values[j]
           ELSE /\ st[search[k].Name] >= search[k].Range[1]
                /\ st[search[k].Name] <= search[k].Range[2]

\* C20: every state an optimizer passes to the Evaluator, and the state it
\* returns, has every search variable inside its range or among its values.
C20_StatesInSearchSpace ==
    /\ \A i \in DOMAIN passed : InSearchSpace(passed[i])
    /\ optPc = "returned" => InSearchSpace(ret)

\* C20 witness: an optimizer returned after evaluating a state at the upper end
\* and one at the lower end of a range.
C20_Witness ==
    /\ optPc = "returned"
    /\ Len(search[1].Values) = 0
    /\ \E i \in DOMAIN passed : passed[i][search[1].Name] = search[1].Range[2]
    /\ \E i \in DOMAIN passed : passed[i][search[1].Name] = search[1].Range[1]

\* C21: with error_target > 0 the actual duration d of a run satisfies
\* min_runtime <= d <= max_runtime + 200 ms (two ticks), whatever the relation
\* between min_runtime and max_runtime and whatever the samples.
C21_RuntimeBounds ==
    (monPc = "returned" /\ monParams.ErrorTarget[1] > 0) =>
        /\ monParams.MinRuntime <= duration
        /\ duration <= monParams.MaxRuntime + 2

\* The termination rule as stated: Converged when elapsed >= min_runtime and
\* there are at least 6 samples with a positive mean, error_target > 0 and a
\* relative error within it.
ClaimConverged(el, xs, p) ==
    /\ el >= p.MinRuntime
    /\ Len(xs) >= 6
    /\ MeanPositive(xs)
    /\ p.ErrorTarget[1] > 0
    /\ RelErrWithin(xs, p.ErrorTarget)

\* C22: on each monitor tick the run ends with Converged under the stated
\* condition, otherwise with Timeout if max_runtime > 0 and elapsed >=
\* max_runtime, otherwise it continues; the reason of a returned run is one of
\* the two.
C22_TerminationRule ==
    [][/\ (monPc = "monitor" /\ elapsed' = elapsed + 1)
          => (IF ClaimConverged(elapsed', iopsSamples', monParams)
              THEN monPc' = "finished" /\ monReason' = "Converged"
              ELSE IF monParams.MaxRuntime > 0 /\ elapsed' >= monParams.MaxRuntime
                   THEN monPc' = "finished" /\ monReason' = "Timeout"
                   ELSE monPc' = "monitor" /\ monReason' = "")
       /\ monPc' = "returned" => monReason' \in {"Converged", "Timeout"}]_vars

\* C23: a fatal error in one worker is fatal for the run: the failing worker
\* has exited, a worker without an error exits only once done is signalled,
\* and Run returns an error and no Result exactly when a worker failed,
\* however many I/Os the other workers completed.
C23_WorkerErrorFatal ==
    [][/\ \A w \in WorkerIds : workerErr'[w] => pc'[w] = "exit"
       /\ \A w \in WorkerIds :
             (pc[w] # "exit" /\ pc'[w] = "exit" /\ ~workerErr'[w]) => done
       /\ (runPc = "wait" /\ runPc' # "wait") =>
             (runPc' = "error" <=> \E w \in WorkerIds : workerErr[w])
       /\ (runPc = "wait" /\ runPc' # "wait") => runPc' \in {"error", "returned"}]_vars

\* C23 witness: Run returned an error although a worker without an error
\* completed several I/Os.
C23_Witness ==
    /\ runPc = "error"
    /\ \E w1, w2 \in WorkerIds :
          /\ workerErr[w1]
          /\ issued[w1] > 0
          /\ ~workerErr[w2]
          /\ ioCount[w2] >= 2

\* The stated normalisation: QD <= 0 becomes the worker count, and the worker
\* count is capped at QD.
ClaimPartQD == IF partParams.QueueDepth <= 0 THEN partParams.Workers ELSE partParams.QueueDepth

ClaimPartWorkers == IF partParams.Workers > ClaimPartQD THEN ClaimPartQD ELSE partParams.Workers

\* C24: the ring and async drivers normalise and partition the queue depth:
\* the first (QD mod workers) workers get floor(QD / workers) + 1 slots and the
\* others floor(QD / workers), so every started worker has at least one slot
\* and the slot counts add up to QD.
C24_QueueDepthPartition ==
    partPc = "started" =>
        /\ DOMAIN workerSlots = 0 .. (ClaimPartWorkers - 1)
        /\ \A i \in DOMAIN workerSlots :
              /\ workerSlots[i] = (ClaimPartQD \div ClaimPartWorkers)
                                    + (IF i < ClaimPartQD % ClaimPartWorkers THEN 1 ELSE 0)
              /\ workerSlots[i] >= 1
        /\ SumOver(workerSlots, DOMAIN workerSlots) = ClaimPartQD

\* C24 witness: a distribution with a remainder over three or more workers.
C24_Witness ==
    /\ partPc = "started"
    /\ Cardinality(DOMAIN workerSlots) >= 3
    /\ \E i, j \in DOMAIN workerSlots : workerSlots[i] > workerSlots[j] /\ workerSlots[j] >= 2

RECURSIVE SpansOfMsgs(_)
SpansOfMsgs(msgs) == IF msgs = <<>> THEN <<>> ELSE Head(msgs).Spans \o SpansOfMsgs(Tail(msgs))

\* The spans a worker has delivered to the sink, in order.
DeliveredSpans(w) == SpansOfMsgs(sent[w])

\* The spans of a worker's finished I/Os: delivered or pending in its batch.
RecordedSpans(w) == DeliveredSpans(w) \o traceSpans[w]

IsPrefix(a, b) == Len(a) <= Len(b) /\ SubSeq(b, 1, Len(a)) = a

\* C25: with a trace sink, every span a worker has recorded is delivered
\* exactly once by the time the worker has returned, on every exit path: no
\* step loses or repeats a recorded span, a returning worker leaves none
\* undelivered, and the residual batch goes out in one last TraceMsg with
\* MinStart = MaxInt64.
C25_SpansDelivered ==
    [][params.Trace =>
         \A w \in WorkerIds :
            /\ IsPrefix(RecordedSpans(w), RecordedSpans(w)')
            /\ (pc[w] # "exit" /\ pc'[w] = "exit") =>
                  /\ IsPrefix(RecordedSpans(w), DeliveredSpans(w)')
                  /\ (traceSpans[w] # <<>> /\ ~workerErr'[w]) =>
                        sent'[w] = Append(sent[w], TraceMsg(w, traceSpans[w], MaxInt64))]_vars

\* The merge laws on the three histograms of a run, taken in every order.
C26MergeLaws ==
    \A x \in HistIds, y \in HistIds, z \in HistIds :
        (x # y /\ y # z /\ x # z) =>
            LET A == Deref(x)
                B == Deref(y)
                C == Deref(z)
                left == HistogramMerge(HistogramMerge(A, B), C)
            IN /\ left = HistogramMerge(A, HistogramMerge(B, C))
               /\ HistogramMerge(A, B) = HistogramMerge(B, A)
               /\ left.TotalCount = recorded[x] + recorded[y] + recorded[z]

\* C26: merging the histograms of three recording sequences gives the same
\* bucket counts, min, max and sum in every grouping and every order, the
\* total count is the number of recordings of the three, and a Merge leaves
\* the histogram passed as argument as it was.
C26_MergeAssociativeCommutative ==
    /\ []C26MergeLaws
    /\ [][histOps'.merges # histOps.merges =>
             \A id \in HistIds : id = lastMerge'[2] => Deref(id)' = Deref(id)]_vars

\* Three different non-empty histograms, the latest Merge into a receiver
\* that held recordings of its own.
C26_Witness ==
    /\ lastMerge # <<>>
    /\ \A id \in HistIds : hs[id].TotalCount > 0
    /\ Cardinality({Deref(id) : id \in HistIds}) = 3
    /\ hs[lastMerge[1]].TotalCount > hs[lastMerge[2]].TotalCount

\* The cumulative count of the buckets up to position i.
RECURSIVE CumulativeCount(_, _)
CumulativeCount(counts, i) ==
    IF i = 0 THEN 0 ELSE counts[i] + CumulativeCount(counts, i - 1)

\* C27: on a histogram built by Record and Merge the quantiles are monotone
\* (q1 < q2 gives ValueAtQuantile(q1) <= ValueAtQuantile(q2)), and the value
\* returned is the upper bound of the first bucket whose cumulative count
\* reaches the target.
C27_QuantilesMonotone ==
    histPc = "read" =>
        LET h == Deref(quants.of)
        IN /\ \A q1 \in Quantiles, q2 \in Quantiles :
                  q1[1] * q2[2] < q2[1] * q1[2] => quants.at[q1] <= quants.at[q2]
           /\ h.TotalCount > 0 =>
                 \A q \in Quantiles :
                     LET target == (h.TotalCount * q[1]) \div q[2]
                         reaching == {i \in 1 .. Len(h.Counts) :
                                         CumulativeCount(h.Counts, i) >= target}
                     IN /\ reaching # {}
                        /\ \A i \in reaching :
                              (\A j \in reaching : i <= j) => quants.at[q] = bucketLimits[i]

\* The quantiles of a merged histogram, not all in one bucket.
C27_Witness ==
    /\ histPc = "read"
    /\ lastMerge # <<>>
    /\ lastMerge[1] = quants.of
    /\ hs[quants.of].TotalCount >= 3
    /\ quants.at[<<1, 2>>] < quants.at[<<1, 1>>]
    /\ quants.at[<<0, 1>>] < quants.at[<<1, 2>>]

\* C28: with Rand set, every offset a worker issues is a multiple of the
\* block size in [0, (maxBlocks - 1) * bs] with maxBlocks = size / bs, so
\* offset + bs is within the file; a worker with maxBlocks <= 0 issues no I/O
\* and returns an error.
C28_RandomOffsets ==
    /\ (offParams.Rand /\ offParams.BlockSize > 0) =>
          \A i \in 1 .. Len(offsets) :
              /\ offsets[i] % offParams.BlockSize = 0
              /\ 0 <= offsets[i]
              /\ offsets[i] <= ((offParams.Size \div offParams.BlockSize) - 1) * offParams.BlockSize
              /\ offsets[i] + offParams.BlockSize <= offParams.Size
    /\ (offPc # "setup" /\ offParams.BlockSize > 0
            /\ offParams.Size \div offParams.BlockSize <= 0) =>
          offPc = "error" /\ offsets = <<>>

\* A worker with Rand set on a file that is not a whole number of blocks has
\* issued its last block and two others.
C28_Witness ==
    /\ offParams.Rand
    /\ offParams.BlockSize > 1
    /\ offParams.Size % offParams.BlockSize # 0
    /\ Len(offsets) = MaxOffsetIOs
    /\ \E i \in 1 .. Len(offsets) : offsets[i] = (maxBlocks - 1) * offParams.BlockSize
    /\ \E i \in 1 .. Len(offsets), j \in 1 .. Len(offsets) : offsets[i] # offsets[j]

\* (normalized Y - normalized X) of p over the common denominator
\* (maxX - minX) * (maxY - minY), as an exact number.
ExactDifference(p, ps) ==
    LET xs == {ps[i].X : i \in 1 .. Len(ps)}
        ys == {ps[i].Y : i \in 1 .. Len(ps)}
    IN (p.Y - Min(ys)) * (Max(xs) - Min(xs)) - (p.X - Min(xs)) * (Max(ys) - Min(ys))

NonZeroSpans(ps) ==
    /\ \E i \in 1 .. Len(ps), j \in 1 .. Len(ps) : ps[i].X # ps[j].X
    /\ \E i \in 1 .. Len(ps), j \in 1 .. Len(ps) : ps[i].Y # ps[j].Y

\* C29: on 3 or more points with non-zero span on both axes FindKnee returns
\* a point with the largest (normalized Y - normalized X), the one with the
\* smallest X among those; [(1,10),(2,20),(3,28),(4,30),(5,31)] gives X = 3
\* and the line [(1,10),(2,20),(3,30),(4,40)] gives X = 1; with a zero span
\* or fewer than 3 points it returns the last point.
C29_KneeMaximizesDifference ==
    kneePc = "returned" =>
        /\ IF Len(points) >= 3 /\ NonZeroSpans(points)
           THEN /\ \E i \in 1 .. Len(points) : points[i] = knee
                /\ \A i \in 1 .. Len(points) :
                      /\ ExactDifference(points[i], points) <= ExactDifference(knee, points)
                      /\ ExactDifference(points[i], points) = ExactDifference(knee, points)
                            => knee.X <= points[i].X
           ELSE Len(points) > 0 => knee = points[Len(points)]
        /\ points = <<Point(1, 10), Point(2, 20), Point(3, 28), Point(4, 30), Point(5, 31)>>
              => knee.X = 3
        /\ points = <<Point(1, 10), Point(2, 20), Point(3, 30), Point(4, 40)>>
              => knee.X = 1

\* C30: on the saturation curve y = min(x, K) sampled at x = 1..N, with
\* 1 < K < N, FindKnee returns the point with X = K.
C30_SaturationKnee ==
    kneePc = "returned" =>
        \A N \in 3 .. MaxCurveN, K \in 2 .. MaxCurveN :
            (K < N /\ points = SaturationCurve(N, K)) => knee.X = K

\* FindKnee has returned the knee of the longest curve, saturating at 3.
C30_Witness ==
    /\ kneePc = "returned"
    /\ points = SaturationCurve(MaxCurveN, 3)
    /\ knee = Point(3, 3)

\* The duration credited to a bin so far.
BinDuration(hist, b) == IF b \in DOMAIN hist THEN hist[b] ELSE 0

\* The histogram of the two-worker scenario: 5e7 ns in bin 20, 1e8 ns in bin 10
\* (in units of 5e7 ns).
ScenarioHistogram == (20 :> 1) @@ (10 :> 2)

\* C31: processing an event at time t, a previous event having been processed
\* at lastTime <= t, adds exactly t - lastTime to the bin round(currentRate) of
\* the rate before the event and changes no other bin, then adds the event's
\* rate for a Start and subtracts it for an End; the spans [0,1e8] and
\* [5e7,1.5e8] of two workers give 5e7 ns in bin 20 and 1e8 ns in bin 10.
C31_EventCreditsOneBin ==
    /\ []((anPc = "done" /\ \E i \in DOMAIN popLog : popLog[i].Rate = 10 * RateDenominator)
            => histogram = ScenarioHistogram)
    /\ [][(popLog # <<>> /\ Len(popLog') = Len(popLog) + 1
              /\ lastTime <= popLog'[Len(popLog')].Time) =>
             /\ \A b \in DOMAIN histogram \cup DOMAIN histogram' \cup {Round(currentRate)} :
                   BinDuration(histogram', b) =
                       BinDuration(histogram, b) +
                       (IF b = Round(currentRate)
                        THEN popLog'[Len(popLog')].Time - lastTime ELSE 0)
             /\ currentRate' =
                   IF popLog'[Len(popLog')].Type = EventStart
                   THEN currentRate + popLog'[Len(popLog')].Rate
                   ELSE currentRate - popLog'[Len(popLog')].Rate]_vars

\* The scenario has been processed to its end, bin 10 credited twice.
C31_Witness ==
    /\ anPc = "done"
    /\ Len(popLog) = 4
    /\ histogram = ScenarioHistogram
    /\ popLog[2].Type = EventStart
    /\ popLog[3].Type = EventEnd

\* The workers Run has started.
JoinStarted == 0 .. (StartedWorkers(joinParams) - 1)

\* C32: join ordering of a run.  Every started worker sends exactly one
\* workerResult (none before its worker returned, one from then on, and all
\* of them once Run aggregates); a worker about to send finds a free slot in
\* the results channel; results is closed, and histograms are merged, only
\* after done was closed and every worker goroutine has finished; no send
\* hits the closed channel.
C32_JoinOrdering ==
    /\ ~panicked
    /\ \A w \in JoinWorkerIds :
          sends[w] = IF goPc[w] \in {"sent", "exited"} THEN 1 ELSE 0
    /\ \A w \in JoinWorkerIds :
          goPc[w] = "returned" => Len(results) < ResultsCapacity(joinParams)
    /\ resultsClosed => (doneClosed /\ \A w \in JoinStarted : goPc[w] = "exited")
    /\ (merged # {} \/ joinPc \in {"aggregate", "returned", "error"}) => resultsClosed
    /\ joinPc \in {"returned", "error"} =>
          \A w \in JoinStarted : sends[w] = 1 /\ (w \in merged \/ goRes[w] = "err")

C32_Witness ==
    /\ joinPc = "returned"
    /\ joinParams.Workers = MaxJoinWorkers
    /\ merged = JoinWorkerIds
    /\ opsCounter > 0

\* C33: with max_runtime > 0 every run returns: done is closed, every
\* started worker has observed it or failed and has exited, and Run has
\* returned its result or its error.
C33_RunIsLive ==
    (joinPc = "start" /\ joinParams.MaxRuntime > 0)
        ~> (/\ joinPc \in {"returned", "error"}
            /\ doneClosed
            /\ \A w \in JoinStarted : goPc[w] = "exited")

C33_Witness ==
    /\ joinPc = "error"
    /\ joinParams.MaxRuntime > 0
    /\ joinParams.Workers = MaxJoinWorkers
    /\ opsCounter = 0
    /\ \A w \in JoinWorkerIds : goRes[w] = "err"

\* C34: slot accounting of the ring and aio workers.  At the top of the
\* worker loop inFlight + nextFreeIdx = qd and 0 <= inFlight <= qd; the free
\* stack holds distinct slots, none of them pending in the kernel; and at no
\* point is a slot handed out again before its completion was reaped, also
\* after a QueueSQE that failed.
C34_SlotAccounting ==
    /\ ~slotReused
    /\ slotPc = "top" =>
          /\ slotInFlight + slotNextFreeIdx = slotParams.QD
          /\ 0 <= slotInFlight /\ slotInFlight <= slotParams.QD
          /\ Cardinality(FreeStack(slotFreeSlots, slotNextFreeIdx)) = slotNextFreeIdx
          /\ FreeStack(slotFreeSlots, slotNextFreeIdx) \cap slotPending = {}
          /\ Cardinality(slotPending) = slotInFlight

C34_Witness ==
    /\ slotPc = "top"
    /\ slotParams = [Driver |-> "uring", QD |-> MaxSlotQD]
    /\ slotInFlight = 1
    /\ slotNextFreeIdx = MaxSlotQD - 1
    /\ slotFreeSlots # [i \in 1 .. MaxSlotQD |-> i - 1]

\* C35: with Rand not set, every offset of a ring or aio worker is a
\* multiple of the block size and offset + bs is within the file, for every
\* file size and however often lastOffset has wrapped around.
C35_SequentialOffsets ==
    (~offParams.Rand /\ offParams.Driver \in {"uring", "libaio"} /\ offParams.BlockSize > 0) =>
        \A i \in 1 .. Len(offsets) :
            /\ offsets[i] % offParams.BlockSize = 0
            /\ offsets[i] + offParams.BlockSize <= offParams.Size

\* C36: the coordinate optimizer returns a consistent pair.  The state it
\* returns is current, and the Result it returns with it is the one the
\* Evaluator returned for some evaluation of exactly that state, with the
\* score that is bestScore when the search ends.
C36_ConsistentPair ==
    (optKind = "coordinate" /\ optPc = "returned") =>
        /\ ret = co.current
        /\ \E i \in DOMAIN History :
              /\ History[i].State = ret
              /\ History[i].Result = co.bestRes
              /\ History[i].Score = co.bestScore

\* C36 witness: a search has returned a state other than the one it started
\* from, with a result that is not the latest one evaluated.
C36_Witness ==
    /\ optKind = "coordinate"
    /\ optPc = "returned"
    /\ ret # MidpointState
    /\ co.bestRes # LastEntry.Result
    /\ Len(History) >= 5

\* C37: with the deterministic engine the coordinate optimizer terminates on
\* every search space: Optimize returns; a range search is left only with
\* its step halved below 1; and Optimize returns only at the end of a pass
\* over all variables in which nothing improved.
C37_CoordinateTerminates ==
    /\ (optKind = "coordinate" /\ engKind = "capped" /\ optPc = "start") ~> (optPc = "returned")
    /\ []((optKind = "coordinate" /\ engKind = "capped" /\ optPc = "varEnd"
              /\ Len(search[co.vi].Values) = 0) => co.step < 1)
    /\ []((optKind = "coordinate" /\ engKind = "capped" /\ optPc = "returned") =>
              (~co.improved /\ co.vi > Len(search)))

\* C37 witness: the search in steps of 2 returned after a pass that improved
\* and one that did not.
C37_Witness ==
    /\ optKind = "coordinate"
    /\ engKind = "capped"
    /\ optPc = "returned"
    /\ search[1].Step = 2
    /\ ret # MidpointState
    /\ Len(History) >= 8

\* History entries i and j were both evaluated after the first evaluation
\* had set the baseline, and met no constraint.
ScoredAfterBaseline(i, j) ==
    /\ i > 1 /\ j > 1
    /\ History[i].Reason = <<>> /\ History[j].Reason = <<>>

\* C38: scores order results as the objective says.  Under the single
\* objective minimize p99_latency (or p50_latency), of two results evaluated
\* after the baseline is set the one with the lower latency has the strictly
\* higher score; under maximize iops the one with the higher IOPS has.
C38_ScoresOrderResults ==
    \A i \in DOMAIN History, j \in DOMAIN History :
        ScoredAfterBaseline(i, j) =>
            /\ (cfg = <<Objective("minimize", "p99_latency", "")>>
                  /\ History[i].Result.P99Latency < History[j].Result.P99Latency)
                 => ScoreGreater(History[i].Score, History[j].Score)
            /\ (cfg = <<Objective("minimize", "p50_latency", "")>>
                  /\ History[i].Result.P50Latency < History[j].Result.P50Latency)
                 => ScoreGreater(History[i].Score, History[j].Score)
            /\ (cfg = <<Objective("maximize", "iops", "")>>
                  /\ ScoreGreater(History[i].Result.IOPS, History[j].Result.IOPS))
                 => ScoreGreater(History[i].Score, History[j].Score)

\* C39: a failed evaluation leaves the evaluator unchanged.  When the
\* engine's Run fails, Evaluate returns the error with the zero Result and
\* the score 0, and the Cache, the History and initialScore are as they were
\* before the call.
C39_FailedEvaluation ==
    [][(engCalls' = engCalls + 1 /\ evalRet'.err) =>
          /\ evalRet'.res = ZeroResult
          /\ evalRet'.score = RatZero
          /\ Cache' = Cache
          /\ History' = History
          /\ initialScore' = initialScore]_vars

\* C39 witness: an evaluation has failed after two that succeeded.
C39_Witness ==
    /\ evalRet.err
    /\ Len(History) = 2
    /\ Cache # EmptyMap
    /\ initialScore # RatZero
    /\ engCalls = 3

RECURSIVE RatPower(_, _)
RatPower(r, i) ==
    IF i = 0 THEN RatOne
    ELSE Rat(r[1] * RatPower(r, i - 1)[1], r[2] * RatPower(r, i - 1)[2])

\* L: the number of levels initial_temp * cooling_rate^i that are > min_temp.
TempLevels(st) ==
    Cardinality({i \in 0 .. MaxTempLevels :
                    ~RatLE(Rat(st.InitialTemp[1] * RatPower(st.CoolingRate, i)[1],
                               st.InitialTemp[2] * RatPower(st.CoolingRate, i)[2]),
                           st.MinTemp)})

====
